---- MODULE Spec2Model ----
(***************************************************************************)
(* The devotion-content pipeline of DailyLectio/calm:                      *)
(*   scripts/exp/generate.js (and its sibling generator that also emits    *)
(*   JSON) writes public/exp/devotion.md; scripts/exp/parse.js reads it    *)
(*   and writes public/exp/devotions.json.                                 *)
(* A text is a sequence of one-character strings.  A JavaScript value is a *)
(* record [k, v]: k its kind, v its payload.                               *)
(***************************************************************************)
EXTENDS Integers, Sequences, FiniteSets, TLC

VARIABLES md, outFile, pc, result, sections, log,
          calls, weeklyFeed, devotions, now, run,
          frontmatter, decoded,
          storage, scheduled, issued, clock,
          kv, kvAvailable, MEM_register, MEM_send, res, tokens, acknowledged

vars == <<md, outFile, pc, result, sections, log,
          calls, weeklyFeed, devotions, now, run,
          frontmatter, decoded,
          storage, scheduled, issued, clock,
          kv, kvAvailable, MEM_register, MEM_send, res, tokens, acknowledged>>

\* the invocations of parse.js that run side by side, each with its locals
callVars == <<calls>>

\* public/weeklyfeed.json, public/devotions.json, the clock and the daily run
feedVars == <<weeklyFeed, devotions, now, run>>

\* fm and parsed, the locals of emitJson
emitVars == <<frontmatter, decoded>>

\* AsyncStorage, the notifications scheduled on the device, the identifiers
\* handed out so far and the device's local time
notifyVars == <<storage, scheduled, issued, clock>>

\* the expoTokens set of the key-value store and whether the store answers,
\* the MEM set of register.ts and the MEM set of send.ts, the last response,
\* the tokens the last send read and the tokens register answered ok for
pushVars == <<kv, kvAvailable, MEM_register, MEM_send, res, tokens, acknowledged>>

\* what the pipeline scripts leave alone
appVars == <<notifyVars, pushVars>>

(***************************************************************************)
(* Bounds                                                                  *)
(***************************************************************************)
MaxBlocks == 2

\* entries of public/weeklyfeed.json
MaxEntries == 2

\* notifications scheduled in the life of an installation
MaxSchedules == 3

(***************************************************************************)
(* JavaScript values                                                       *)
(***************************************************************************)
Str(s) == [k |-> "str", v |-> s]

Null == [k |-> "null", v |-> <<>>]

Undef == [k |-> "undef", v |-> <<>>]

Arr(a) == [k |-> "arr", v |-> a]

Num(s) == [k |-> "num", v |-> s]

DateObj(s) == [k |-> "date", v |-> s]

Obj(f) == [k |-> "obj", v |-> f]

\* ToBoolean: '' , 0, null and undefined are falsy
Truthy(x) ==
  CASE x.k = "str" -> x.v # <<>>
    [] x.k = "num" -> x.v # <<"0">>
    [] x.k \in {"null", "undef"} -> FALSE
    [] OTHER -> TRUE

\* a || b
OrElse(a, b) == IF Truthy(a) THEN a ELSE b

\* a alone, without a default
CoalesceOmitted(a, b) == a

\* a ?? b
Coalesce(a, b) == IF a.k \in {"null", "undef"} THEN b ELSE a

\* property read o[key]; a missing property reads undefined
Get(o, key) == IF key \in DOMAIN o THEN o[key] ELSE Undef

EmptyObj == [x \in {} |-> Undef]

(***************************************************************************)
(* String primitives                                                       *)
(***************************************************************************)
NL == <<"\n">>

UpperCase == <<"A","B","C","D","E","F","G","H","I","J","K","L","M","N","O","P","Q","R","S","T","U","V","W","X","Y","Z">>

LowerCase == <<"a","b","c","d","e","f","g","h","i","j","k","l","m","n","o","p","q","r","s","t","u","v","w","x","y","z">>

Digits == {"0", "1", "2", "3", "4", "5", "6", "7", "8", "9"}

ToLowerChar(c) ==
  IF \E i \in 1..26 : UpperCase[i] = c
  THEN LowerCase[CHOOSE i \in 1..26 : UpperCase[i] = c]
  ELSE c

toLowerCase(s) == [i \in 1..Len(s) |-> ToLowerChar(s[i])]

IsLowerLetter(c) == \E i \in 1..26 : LowerCase[i] = c

IsSpace(c) == c \in {" ", "\n", "\t", "\r"}

RECURSIVE trimStart(_)
trimStart(s) == IF s # <<>> /\ IsSpace(Head(s)) THEN trimStart(Tail(s)) ELSE s

RECURSIVE trimEnd(_)
trimEnd(s) ==
  IF s # <<>> /\ IsSpace(s[Len(s)]) THEN trimEnd(SubSeq(s, 1, Len(s) - 1)) ELSE s

trim(s) == trimEnd(trimStart(s))

startsWith(s, p) == Len(s) >= Len(p) /\ SubSeq(s, 1, Len(p)) = p

endsWith(s, p) == Len(s) >= Len(p) /\ SubSeq(s, Len(s) - Len(p) + 1, Len(s)) = p

Min(S) == CHOOSE x \in S : \A y \in S : x <= y

Max(S) == CHOOSE x \in S : \A y \in S : x >= y

\* 1-based index of the first c in s, 0 when there is none
indexOf(s, c) ==
  LET hits == {i \in 1..Len(s) : s[i] = c}
  IN IF hits = {} THEN 0 ELSE Min(hits)

RECURSIVE split(_, _)
split(s, c) ==
  LET i == indexOf(s, c)
  IN IF i = 0 THEN <<s>>
     ELSE <<SubSeq(s, 1, i - 1)>> \o split(SubSeq(s, i + 1, Len(s)), c)

RECURSIVE join(_, _)
join(ss, sep) ==
  IF ss = <<>> THEN <<>>
  ELSE IF Len(ss) = 1 THEN ss[1]
  ELSE ss[1] \o sep \o join(Tail(ss), sep)

Lines(t) == split(t, "\n")

(***************************************************************************)
(* The state of the mobile application before it is installed and of the   *)
(* push backend before it is deployed                                      *)
(***************************************************************************)
NoResponse == [handler |-> "none", status |-> 0, body |-> Undef]

NotInstalled == storage = <<>> /\ scheduled = {} /\ issued = 0 /\ clock = 0

NotDeployed ==
  /\ kv = {} /\ kvAvailable = FALSE /\ MEM_register = {} /\ MEM_send = {}
  /\ res = NoResponse /\ tokens = {} /\ acknowledged = {}

(***************************************************************************)
(* YAML decoding done by the libraries the scripts call.  The documents    *)
(* of this model hold one `key: value` entry per frontmatter line; values  *)
(* are plain scalars, quoted scalars or one-line flow sequences.           *)
(*   timestamps = TRUE : js-yaml as used by gray-matter (YAML 1.1 types,   *)
(*                       a plain YYYY-MM-DD scalar is a Date)              *)
(*   timestamps = FALSE: the `yaml` package (YAML 1.2 core schema)         *)
(***************************************************************************)
Delim == <<"-","-","-">>

DQ == "\""

SQ == "'"

Quoted(v, q) == Len(v) >= 2 /\ v[1] = q /\ v[Len(v)] = q

Inner(v) == SubSeq(v, 2, Len(v) - 1)

YamlNulls == {<<"~">>, <<"n","u","l","l">>, <<"N","u","l","l">>, <<"N","U","L","L">>}

IsInt(v) == v # <<>> /\ \A i \in 1..Len(v) : v[i] \in Digits

IsTimestamp(v) ==
  /\ Len(v) = 10
  /\ v[5] = "-" /\ v[8] = "-"
  /\ \A i \in {1, 2, 3, 4, 6, 7, 9, 10} : v[i] \in Digits

yamlScalar(v, timestamps) ==
  IF v = <<>> \/ v \in YamlNulls THEN Null
  ELSE IF timestamps /\ IsTimestamp(v) THEN DateObj(v)
  ELSE IF IsInt(v) THEN Num(v)
  ELSE Str(v)

yamlItem(v, timestamps) ==
  IF Quoted(v, DQ) \/ Quoted(v, SQ) THEN Str(Inner(v)) ELSE yamlScalar(v, timestamps)

yamlValue(v, timestamps) ==
  IF Len(v) >= 2 /\ v[1] = "[" /\ v[Len(v)] = "]"
  THEN LET inner == trim(Inner(v))
           parts == split(inner, ",")
       IN Arr(IF inner = <<>> THEN <<>>
              ELSE [i \in 1..Len(parts) |-> yamlItem(trim(parts[i]), timestamps)])
  ELSE yamlItem(v, timestamps)

RECURSIVE yamlLoad(_, _)
yamlLoad(ls, timestamps) ==
  IF ls = <<>> THEN EmptyObj
  ELSE LET l == Head(ls)
           i == indexOf(l, ":")
           rest == yamlLoad(Tail(ls), timestamps)
       IN IF trim(l) = <<>> \/ i = 0 THEN rest
          ELSE (trim(SubSeq(l, 1, i - 1)) :>
                  yamlValue(trim(SubSeq(l, i + 1, Len(l))), timestamps)) @@ rest

(***************************************************************************)
(* gray-matter: matter(md) => { data, content }                            *)
(* The block opens when the text starts with `---` (not followed by a      *)
(* fourth `-`) and closes at the first later `\n---`; without an opening   *)
(* delimiter data is {} and content is the whole text.                     *)
(***************************************************************************)
matter(text) ==
  IF ~startsWith(text, Delim) \/ (Len(text) > 3 /\ text[4] = "-")
  THEN [data |-> EmptyObj, content |-> text]
  ELSE LET ls == Lines(text)
           closers == {j \in 2..Len(ls) : startsWith(ls[j], Delim)}
       IN IF closers = {}
          THEN [data |-> yamlLoad(Tail(ls), TRUE), content |-> <<>>]
          ELSE LET j == Min(closers)
                   after == join(<<SubSeq(ls[j], 4, Len(ls[j]))>>
                                   \o SubSeq(ls, j + 1, Len(ls)), NL)
               IN [data |-> yamlLoad(SubSeq(ls, 2, j - 1), TRUE),
                   content |-> IF after # <<>> /\ after[1] = "\n"
                               THEN Tail(after) ELSE after]

(***************************************************************************)
(* remark: the children of the root of the parsed body, each with the text *)
(* mdast-util-to-string gives for it.  The bodies of this model are made   *)
(* of `# ` headings, paragraphs and blank lines.                           *)
(***************************************************************************)
IsHeadingLine(l) == startsWith(l, <<"#"," ">>)

RECURSIVE remarkBlocks(_, _)
remarkBlocks(ls, para) ==
  LET flush == IF para = <<>> THEN <<>>
               ELSE <<[type |-> "paragraph", text |-> join(para, NL)]>>
  IN IF ls = <<>> THEN flush
     ELSE LET l == Head(ls)
          IN IF trim(l) = <<>> THEN flush \o remarkBlocks(Tail(ls), <<>>)
             ELSE IF IsHeadingLine(l)
               THEN flush
                      \o <<[type |-> "heading", text |-> trim(SubSeq(l, 3, Len(l)))]>>
                      \o remarkBlocks(Tail(ls), <<>>)
             ELSE remarkBlocks(Tail(ls), Append(para, trim(l)))

parseTree(content) == remarkBlocks(Lines(content), <<>>)

(***************************************************************************)
(* scripts/exp/parse.js                                                    *)
(***************************************************************************)
\* lower-casing alone, every character kept
normCaseOnly(s) == toLowerCase(s)

\* String(s || '').toLowerCase().replace(/[^a-z]/g, '')
norm(s) == SelectSeq(toLowerCase(s), IsLowerLetter)

HEAD_MAP ==
  (<<"f","i","r","s","t","r","e","a","d","i","n","g","s","u","m","m","a","r","y">> :> <<"f","i","r","s","t","R","e","a","d","i","n","g">>)
  @@ (<<"s","e","c","o","n","d","r","e","a","d","i","n","g","s","u","m","m","a","r","y">> :> <<"s","e","c","o","n","d","R","e","a","d","i","n","g">>)
  @@ (<<"p","s","a","l","m","s","u","m","m","a","r","y">> :> <<"p","s","a","l","m","S","u","m","m","a","r","y">>)
  @@ (<<"g","o","s","p","e","l","s","u","m","m","a","r","y">> :> <<"g","o","s","p","e","l","S","u","m","m","a","r","y">>)
  @@ (<<"s","a","i","n","t","r","e","f","l","e","c","t","i","o","n">> :> <<"s","a","i","n","t","R","e","f","l","e","c","t","i","o","n">>)
  @@ (<<"d","a","i","l","y","p","r","a","y","e","r">> :> <<"d","a","i","l","y","P","r","a","y","e","r">>)
  @@ (<<"t","h","e","o","l","o","g","i","c","a","l","s","y","n","t","h","e","s","i","s">> :> <<"t","h","e","o","l","o","g","i","c","a","l","S","y","n","t","h","e","s","i","s">>)
  @@ (<<"d","e","t","a","i","l","e","d","s","c","r","i","p","t","u","r","a","l","e","x","e","g","e","s","i","s">> :> <<"e","x","e","g","e","s","i","s">>)

\* HEAD_MAP is an object literal: a read of a name it does not hold goes on
\* to Object.prototype, whose one name made of lower-case letters alone is
\* constructor; used as a property key that function reads as this text
ObjectPrototype ==
  (<<"c","o","n","s","t","r","u","c","t","o","r">> :> <<"f","u","n","c","t","i","o","n"," ","O","b","j","e","c","t","(",")"," ","{"," ","[","n","a","t","i","v","e"," ","c","o","d","e","]"," ","}">>)

\* HEAD_MAP[norm(title)] ?? `extra_${norm(title) || 'unknown'}`
headingKey(title) ==
  LET n == norm(title)
  IN IF n \in DOMAIN HEAD_MAP THEN HEAD_MAP[n]
     ELSE IF n \in DOMAIN ObjectPrototype THEN ObjectPrototype[n]
     ELSE <<"e","x","t","r","a","_">> \o (IF n = <<>> THEN <<"u","n","k","n","o","w","n">> ELSE n)

\* the text put in place of what the section held
appendTextReplacing(old, text) == text \o NL

\* the text added right after what the section held, no line break
appendTextJoined(old, text) == old \o text

\* sections[currentKey] += text + '\n'
appendText(old, text) == old \o text \o NL

\* the section emptied at every heading of its key
openSectionAnew(secs, key) == (key :> <<>>) @@ secs

\* if (!(currentKey in sections)) sections[currentKey] = ''
openSection(secs, key) == IF key \in DOMAIN secs THEN secs ELSE (key :> <<>>) @@ secs

RECURSIVE collect(_, _, _)
collect(nodes, secs, currentKey) ==
  IF nodes = <<>> THEN secs
  ELSE LET node == Head(nodes)
       IN IF node.type = "heading"
          THEN LET key == headingKey(node.text)
               IN collect(Tail(nodes), openSection(secs, key), key)
          ELSE collect(Tail(nodes),
                       IF node.text # <<>>
                       THEN [secs EXCEPT ![currentKey] = appendText(@, node.text)]
                       ELSE secs,
                       currentKey)

\* the two invocations that run side by side
Calls == {"a", "b"}

\* the sections of the first invocation, whichever invocation asks
accumulatedByFirst(cs, c) == cs["a"].sections

\* const sections = {} inside parseMarkdownToJSON: each invocation has its own
accumulated(cs, c) == cs[c].sections

collectSections(tree) == collect(tree, (<<"i","n","t","r","o">> :> <<>>), <<"i","n","t","r","o">>)

\* the accumulated sections left as they are
trimSectionsSkipped(secs) == secs

\* for (const k of Object.keys(sections)) sections[k] = sections[k].trim()
trimSections(secs) == [key \in DOMAIN secs |-> trim(secs[key])]

section(secs, key) == IF key \in DOMAIN secs THEN Str(secs[key]) ELSE Undef

\* the date is never found missing
dateNeverMissing(data) == FALSE

\* if (!data?.date) throw
dateMissing(data) == ~Truthy(Get(data, <<"d","a","t","e">>))

\* data.tags as decoded
tagsUnchecked(data) == Get(data, <<"t","a","g","s">>)

tags(data) ==
  LET t == Get(data, <<"t","a","g","s">>)
  IN IF t.k = "arr" THEN t
     ELSE IF t.k = "str"
       THEN LET parts == split(t.v, ",")
                trimmed == [i \in 1..Len(parts) |-> trim(parts[i])]
                kept == SelectSeq(trimmed, LAMBDA p : p # <<>>)
            IN Arr([i \in 1..Len(kept) |-> Str(kept[i])])
     ELSE Arr(<<>>)

secondReading(secs) ==
  OrElse(OrElse(section(secs, <<"s","e","c","o","n","d","R","e","a","d","i","n","g">>),
                section(secs, <<"s","e","c","o","n","d","r","e","a","d","i","n","g","s","u","m","m","a","r","y">>)), Null)

\* the intro section taken when the section of the field is empty
contentFieldOrIntro(secs, key, legacy) ==
  OrElse(OrElse(section(secs, key), section(secs, legacy)), section(secs, <<"i","n","t","r","o">>))

contentField(secs, key, legacy) ==
  OrElse(OrElse(section(secs, key), section(secs, legacy)), Str(<<>>))

ToText(x) == x.v

\* the three references joined as they are, absent ones as empty texts
lectionaryKeyUnfiltered(data) ==
  LET refs == <<Get(data, <<"f","i","r","s","t","R","e","a","d","i","n","g","R","e","f">>), Get(data, <<"p","s","a","l","m","R","e","f">>),
                Get(data, <<"g","o","s","p","e","l","R","e","f","e","r","e","n","c","e">>)>>
  IN Str(join([i \in 1..3 |-> ToText(Coalesce(refs[i], Str(<<>>)))], <<"|">>))

lectionaryKey(data) ==
  LET refs == <<Get(data, <<"f","i","r","s","t","R","e","a","d","i","n","g","R","e","f">>), Get(data, <<"p","s","a","l","m","R","e","f">>),
                Get(data, <<"g","o","s","p","e","l","R","e","f","e","r","e","n","c","e">>)>>
      kept == SelectSeq(refs, Truthy)
  IN Str(join([i \in 1..Len(kept) |-> ToText(kept[i])], <<"|">>))

devotion(data, secs) ==
  [date |-> Get(data, <<"d","a","t","e">>),
   quote |-> Coalesce(Get(data, <<"q","u","o","t","e">>), Str(<<>>)),
   quoteCitation |-> Coalesce(Get(data, <<"q","u","o","t","e","C","i","t","a","t","i","o","n">>), Str(<<>>)),
   firstReading |-> contentField(secs, <<"f","i","r","s","t","R","e","a","d","i","n","g">>, <<"f","i","r","s","t","r","e","a","d","i","n","g","s","u","m","m","a","r","y">>),
   secondReading |-> secondReading(secs),
   psalmSummary |-> contentField(secs, <<"p","s","a","l","m","S","u","m","m","a","r","y">>, <<"p","s","a","l","m","s","u","m","m","a","r","y">>),
   gospelSummary |-> contentField(secs, <<"g","o","s","p","e","l","S","u","m","m","a","r","y">>, <<"g","o","s","p","e","l","s","u","m","m","a","r","y">>),
   saintReflection |-> contentField(secs, <<"s","a","i","n","t","R","e","f","l","e","c","t","i","o","n">>, <<"s","a","i","n","t","r","e","f","l","e","c","t","i","o","n">>),
   dailyPrayer |-> contentField(secs, <<"d","a","i","l","y","P","r","a","y","e","r">>, <<"d","a","i","l","y","p","r","a","y","e","r">>),
   theologicalSynthesis |->
     contentField(secs, <<"t","h","e","o","l","o","g","i","c","a","l","S","y","n","t","h","e","s","i","s">>, <<"t","h","e","o","l","o","g","i","c","a","l","s","y","n","t","h","e","s","i","s">>),
   exegesis |-> contentField(secs, <<"e","x","e","g","e","s","i","s">>, <<"d","e","t","a","i","l","e","d","s","c","r","i","p","t","u","r","a","l","e","x","e","g","e","s","i","s">>),
   tags |-> tags(data),
   usccbLink |-> Coalesce(Get(data, <<"u","s","c","c","b","L","i","n","k">>), Str(<<>>)),
   cycle |-> Coalesce(Get(data, <<"c","y","c","l","e">>), Str(<<>>)),
   weekdayCycle |-> Coalesce(Get(data, <<"w","e","e","k","d","a","y","C","y","c","l","e">>), Str(<<>>)),
   feast |-> Coalesce(Get(data, <<"f","e","a","s","t">>), Str(<<>>)),
   gospelReference |-> Coalesce(Get(data, <<"g","o","s","p","e","l","R","e","f","e","r","e","n","c","e">>), Str(<<>>)),
   firstReadingRef |-> Coalesce(Get(data, <<"f","i","r","s","t","R","e","a","d","i","n","g","R","e","f">>), Str(<<>>)),
   secondReadingRef |-> Coalesce(Get(data, <<"s","e","c","o","n","d","R","e","a","d","i","n","g","R","e","f">>), Null),
   psalmRef |-> Coalesce(Get(data, <<"p","s","a","l","m","R","e","f">>), Str(<<>>)),
   lectionaryKey |-> lectionaryKey(data)]

(***************************************************************************)
(* JSON.stringify followed by the reader's JSON.parse: a property whose    *)
(* value is undefined is dropped, an undefined array element becomes null, *)
(* a Date becomes its ISO string.                                          *)
(***************************************************************************)
RECURSIVE stringify(_)
stringify(x) ==
  CASE x.k = "date" -> Str(x.v \o <<"T","0","0",":","0","0",":","0","0",".","0","0","0","Z">>)
    [] x.k = "arr" ->
         Arr([i \in 1..Len(x.v) |->
                IF x.v[i].k = "undef" THEN Null ELSE stringify(x.v[i])])
    [] x.k = "obj" ->
         Obj([f \in {g \in DOMAIN x.v : x.v[g].k # "undef"} |-> stringify(x.v[f])])
    [] OTHER -> x

NoFile == [k |-> "nofile", v |-> <<>>]

(***************************************************************************)
(* The generator script that also emits JSON (and scripts/exp/generate.js, *)
(* whose stripCodeFences is the same function)                             *)
(***************************************************************************)
\* the backquote character (a TLA+ string cannot hold it)
Backquote == "bq"

Fence == <<Backquote, Backquote, Backquote>>

\* text.replace(/\r\n/g, '\n')
normalizeNewlines(s) ==
  LET marked == [i \in 1..Len(s) |->
                   IF s[i] = "\r" /\ i < Len(s) /\ s[i + 1] = "\n" THEN "" ELSE s[i]]
  IN SelectSeq(marked, LAMBDA c : c # "")

\* 1-based index of the last occurrence of p in s, 0 when there is none
lastIndexOf(s, p) ==
  LET hits == {i \in 1..(Len(s) - Len(p) + 1) : SubSeq(s, i, i + Len(p) - 1) = p}
  IN IF hits = {} THEN 0 ELSE Max(hits)

stripLeadingFence(t) ==
  IF startsWith(t, Fence)
  THEN LET firstNewline == indexOf(t, "\n")
       IN IF firstNewline = 0 THEN <<>> ELSE SubSeq(t, firstNewline + 1, Len(t))
  ELSE t

stripTrailingFence(t) ==
  LET trimmed == trimEnd(t)
  IN IF endsWith(trimmed, Fence)
     THEN LET lastFenceIdx == lastIndexOf(trimmed, NL \o Fence)
          IN IF lastFenceIdx # 0
             THEN trimEnd(SubSeq(trimmed, 1, lastFenceIdx - 1))
             ELSE trimEnd(SubSeq(trimmed, 1, Len(trimmed) - Len(Fence)))
     ELSE t

stripCodeFences(text) ==
  IF text = <<>> THEN text
  ELSE trim(stripTrailingFence(stripLeadingFence(trim(normalizeNewlines(text)))))

\* the generator of the other script in the same file: the fence lines are
\* taken off with two patterns, /^```[^\n]*\n/ and /\n?```$/
stripCodeFencesPlain(text) ==
  LET t == normalizeNewlines(text)
      firstNewline == indexOf(t, "\n")
      opened == IF startsWith(t, Fence) /\ firstNewline # 0
                THEN SubSeq(t, firstNewline + 1, Len(t)) ELSE t
      cut == IF endsWith(opened, NL \o Fence) THEN Len(Fence) + 1 ELSE Len(Fence)
  IN IF endsWith(opened, Fence) THEN SubSeq(opened, 1, Len(opened) - cut) ELSE opened

\* /^\s*---\s*\n/.test(markdown)
startsWithFrontmatter(markdown) ==
  LET t == trimStart(markdown)
      nl == indexOf(t, "\n")
  IN startsWith(t, Delim) /\ nl # 0 /\ trim(SubSeq(t, 4, nl)) = <<>>

\* md.match(/^---\s*\n([\s\S]*?)\n---/): the captured text, or null
extractFrontmatter(markdown) ==
  IF markdown = <<>> THEN Null
  ELSE LET ls == Lines(markdown)
           n == Len(ls)
           blankUpTo(s) == \A i \in 2..(s - 1) : trim(ls[i]) = <<>>
           closers(s) == {j \in (s + 1)..n : startsWith(ls[j], Delim)}
           starts == {s \in 2..n : blankUpTo(s) /\ closers(s) # {}}
       IN IF n >= 2 /\ startsWith(ls[1], Delim)
             /\ trim(SubSeq(ls[1], 4, Len(ls[1]))) = <<>> /\ starts # {}
          THEN LET s == Max(starts)
               IN Str(join(SubSeq(ls, s, Min(closers(s)) - 1), NL))
          ELSE Null

IsWordChar(c) ==
  \/ IsLowerLetter(c)
  \/ \E i \in 1..26 : UpperCase[i] = c
  \/ c \in Digits
  \/ c = "_"

\* /\btags\s*:\s*\[/.test(line)
opensTags(line) ==
  \E i \in 1..Len(line) :
    /\ startsWith(SubSeq(line, i, Len(line)), <<"t","a","g","s">>)
    /\ (i = 1 \/ ~IsWordChar(line[i - 1]))
    /\ LET afterKey == trimStart(SubSeq(line, i + 4, Len(line)))
       IN /\ afterKey # <<>> /\ afterKey[1] = ":"
          /\ LET afterColon == trimStart(Tail(afterKey))
             IN afterColon # <<>> /\ afterColon[1] = "["

\* the closing bracket is never seen
closesBracketNever(line) == FALSE

\* /\]\s*$/.test(line)
closesBracket(line) == endsWith(trimEnd(line), <<"]">>)

RECURSIVE assemble(_, _, _)
assemble(ls, buf, assembling) ==
  IF ls = <<>> THEN buf
  ELSE LET line == trimEnd(Head(ls))
       IN IF ~assembling /\ opensTags(line) /\ ~closesBracket(line)
          THEN assemble(Tail(ls), Append(buf, line), TRUE)
          ELSE IF assembling
            THEN assemble(Tail(ls),
                          [buf EXCEPT ![Len(buf)] = @ \o <<" ">> \o trim(line)],
                          ~closesBracket(line))
          ELSE assemble(Tail(ls), Append(buf, line), FALSE)

IsJsonInt(v) == IsInt(v) /\ (Len(v) = 1 \/ v[1] # "0")

IsJsonString(v) ==
  /\ Quoted(v, DQ)
  /\ \A i \in 2..(Len(v) - 1) : v[i] \notin {DQ, "\\", "\n", "\t"}

jsonItemOk(v) == IsJsonString(v) \/ IsJsonInt(v) \/ v = <<"n","u","l","l">>

jsonItem(v) ==
  IF IsJsonString(v) THEN Str(Inner(v)) ELSE IF IsJsonInt(v) THEN Num(v) ELSE Null

\* try { JSON.parse(jsonish) } catch { [] }, for a text of the form [ ... ]
\* whose strings hold no comma
jsonParseOrEmpty(jsonish) ==
  LET inner == trim(Inner(jsonish))
      parts == split(inner, ",")
      items == [i \in 1..Len(parts) |-> trim(parts[i])]
  IN IF inner = <<>> THEN Arr(<<>>)
     ELSE IF \A i \in 1..Len(items) : jsonItemOk(items[i])
       THEN Arr([i \in 1..Len(items) |-> jsonItem(items[i])])
     ELSE Arr(<<>>)

replaceSingleQuotes(val) == [i \in 1..Len(val) |-> IF val[i] = SQ THEN DQ ELSE val[i]]

\* the quotes around a value are left where they are
fallbackValueQuotesKept(key, raw) ==
  IF toLowerCase(raw) \in {<<"n","u","l","l">>, <<"n","o","n","e">>} THEN Null
  ELSE IF key = <<"t","a","g","s">> /\ Len(raw) >= 2 /\ raw[1] = "[" /\ raw[Len(raw)] = "]"
    THEN jsonParseOrEmpty(replaceSingleQuotes(raw))
  ELSE Str(raw)

fallbackValue(key, raw) ==
  LET val == IF raw # <<>> /\ ((raw[1] = DQ /\ raw[Len(raw)] = DQ)
                               \/ (raw[1] = SQ /\ raw[Len(raw)] = SQ))
             THEN SubSeq(raw, 2, Len(raw) - 1) ELSE raw
  IN IF toLowerCase(val) \in {<<"n","u","l","l">>, <<"n","o","n","e">>} THEN Null
     ELSE IF key = <<"t","a","g","s">> /\ Len(val) >= 2 /\ val[1] = "[" /\ val[Len(val)] = "]"
       THEN jsonParseOrEmpty(replaceSingleQuotes(val))
     ELSE Str(val)

RECURSIVE fallbackEntries(_, _)
fallbackEntries(buf, out) ==
  IF buf = <<>> THEN out
  ELSE LET line == trim(Head(buf))
           idx == indexOf(line, ":")
       IN IF line = <<>> \/ line[1] = "#" \/ idx = 0
          THEN fallbackEntries(Tail(buf), out)
          ELSE LET key == trim(SubSeq(line, 1, idx - 1))
                   raw == trim(SubSeq(line, idx + 1, Len(line)))
               IN fallbackEntries(Tail(buf), (key :> fallbackValue(key, raw)) @@ out)

parseYamlFallback(str) == fallbackEntries(assemble(Lines(str), <<>>, FALSE), EmptyObj)

yamlParse(str) == yamlLoad(Lines(str), FALSE)

\* String(x).trim().toLowerCase() for the values the decoders give
stringOf(x) == IF x.k = "null" THEN <<"n","u","l","l">> ELSE x.v

secondMissing(parsed) ==
  LET ref == Get(parsed, <<"s","e","c","o","n","d","R","e","a","d","i","n","g","R","e","f">>)
  IN \/ ref.k \in {"null", "undef"}
     \/ toLowerCase(trim(stringOf(ref))) = <<"n","u","l","l">>
     \/ toLowerCase(trim(stringOf(ref))) = <<"n","o","n","e">>

jsonOut(parsed) ==
  [date |-> OrElse(Get(parsed, <<"d","a","t","e">>), Str(<<>>)),
   quote |-> OrElse(Get(parsed, <<"q","u","o","t","e">>), Str(<<>>)),
   quoteCitation |-> OrElse(Get(parsed, <<"q","u","o","t","e","C","i","t","a","t","i","o","n">>), Str(<<>>)),
   cycle |-> OrElse(Get(parsed, <<"c","y","c","l","e">>), Str(<<>>)),
   weekdayCycle |-> OrElse(Get(parsed, <<"w","e","e","k","d","a","y","C","y","c","l","e">>), Str(<<>>)),
   feast |-> OrElse(Get(parsed, <<"f","e","a","s","t">>), Str(<<"O","r","d","i","n","a","r","y"," ","T","i","m","e">>)),
   usccbLink |-> OrElse(Get(parsed, <<"u","s","c","c","b","L","i","n","k">>), Str(<<>>)),
   gospelReference |-> OrElse(Get(parsed, <<"g","o","s","p","e","l","R","e","f","e","r","e","n","c","e">>), Str(<<>>)),
   firstReadingRef |-> OrElse(Get(parsed, <<"f","i","r","s","t","R","e","a","d","i","n","g","R","e","f">>), Str(<<>>)),
   secondReadingRef |->
     IF secondMissing(parsed) THEN Null
     ELSE OrElse(Get(parsed, <<"s","e","c","o","n","d","R","e","a","d","i","n","g","R","e","f">>), Str(<<>>)),
   psalmRef |-> OrElse(Get(parsed, <<"p","s","a","l","m","R","e","f">>), Str(<<>>)),
   tags |-> IF Get(parsed, <<"t","a","g","s">>).k = "arr" THEN Get(parsed, <<"t","a","g","s">>) ELSE Arr(<<>>),
   sections |-> Obj(
     [firstReadingSummary |-> Str(<<"P","L","A","C","E","H","O","L","D","E","R","_","1","2","0","_","1","8","0","_","W","O","R","D","S">>),
      secondReadingSummary |->
        IF secondMissing(parsed) THEN Str(<<"N","o"," ","s","e","c","o","n","d"," ","r","e","a","d","i","n","g"," ","t","o","d","a","y",".">>)
        ELSE Str(<<"P","L","A","C","E","H","O","L","D","E","R","_","6","0","_","1","2","0","_","W","O","R","D","S">>),
      psalmSummary |-> Str(<<"P","L","A","C","E","H","O","L","D","E","R","_","6","0","_","1","2","0","_","W","O","R","D","S">>),
      gospelSummary |-> Str(<<"P","L","A","C","E","H","O","L","D","E","R","_","1","2","0","_","1","8","0","_","W","O","R","D","S">>),
      saintReflection |-> Str(<<"P","L","A","C","E","H","O","L","D","E","R","_","1","2","0","_","1","8","0","_","W","O","R","D","S">>),
      dailyPrayer |-> Str(<<"P","L","A","C","E","H","O","L","D","E","R","_","3","_","6","_","S","E","N","T","E","N","C","E","S">>),
      theologicalSynthesis |-> Str(<<"P","L","A","C","E","H","O","L","D","E","R","_","3","_","6","_","S","E","N","T","E","N","C","E","S">>),
      detailedExegesis |-> Str(<<"P","L","A","C","E","H","O","L","D","E","R","_","7","0","0","_","1","0","0","0","_","W","O","R","D","S">>)])]

\* the content emitJson leaves in public/exp/devotions.json
emitJson(markdown, yamlAvailable) ==
  LET fm == extractFrontmatter(markdown)
  IN IF ~Truthy(fm)
     THEN stringify(Obj([error |-> Str(<<"n","o","-","f","r","o","n","t","m","a","t","t","e","r">>)]))
     ELSE stringify(Obj(jsonOut(IF yamlAvailable THEN yamlParse(fm.v)
                                ELSE parseYamlFallback(fm.v))))

(***************************************************************************)
(* The documents the generation service returns.  A document is an         *)
(* opening delimiter (at times left out), frontmatter lines, the closing   *)
(* delimiter and up to MaxBlocks body blocks set apart by blank lines; the *)
(* service may wrap it in a code fence, or return nothing.                 *)
(***************************************************************************)
DateLines ==
  {<<>>, <<<<"d","a","t","e",":"," ","\"","2","0","2","5","-","0","9","-","0","7","\"">>>>, <<<<"d","a","t","e",":"," ","2","0","2","5","-","0","9","-","0","7">>>>, <<<<"d","a","t","e",":"," ","\"","\"">>>>}

RefLines ==
  {<<>>, <<<<"s","e","c","o","n","d","R","e","a","d","i","n","g","R","e","f",":"," ","n","u","l","l">>>>, <<<<"s","e","c","o","n","d","R","e","a","d","i","n","g","R","e","f",":"," ","\"","N","U","L","L","\"">>>>,
   <<<<"s","e","c","o","n","d","R","e","a","d","i","n","g","R","e","f",":"," ","N","o","n","e">>>>, <<<<"s","e","c","o","n","d","R","e","a","d","i","n","g","R","e","f",":"," ","\"","P","h","l","m"," ","9","\"">>>>}

TagLines ==
  {<<>>, <<<<"t","a","g","s",":"," ","[","\"","F","a","i","t","h","\"",","," ","\"","H","o","p","e","\"","]">>>>, <<<<"t","a","g","s",":"," ","F","a","i","t","h",","," ",","," ","H","o","p","e">>>>,
   <<<<"t","a","g","s",":"," ","[","7",","," ","\"","H","o","p","e","\"","]">>>>}

\* headings, a two-line paragraph and the sentence the prompt asks for when
\* the day has no second reading
BodyBlocks ==
  {<<<<"#"," ","F","i","r","s","t"," ","R","e","a","d","i","n","g"," ","S","u","m","m","a","r","y">>>>, <<<<"#"," ","S","e","c","o","n","d"," ","R","e","a","d","i","n","g"," ","S","u","m","m","a","r","y">>>>,
   <<<<"#"," ","F","u","n"," ","F","a","c","t">>>>, <<<<"A","l","p","h","a">>, <<"B","e","t","a">>>>,
   <<<<"N","o"," ","s","e","c","o","n","d"," ","r","e","a","d","i","n","g"," ","t","o","d","a","y",".">>>>}

RECURSIVE bodyLines(_)
bodyLines(blocks) ==
  IF blocks = <<>> THEN <<>>
  ELSE <<<<>>>> \o Head(blocks) \o bodyLines(Tail(blocks))

MkDoc(open, dateL, refL, tagL, blocks) ==
  join((IF open THEN <<Delim>> ELSE <<>>) \o dateL \o refL \o tagL
         \o <<Delim>> \o bodyLines(blocks), NL)

Wrapped(text) == Fence \o <<"m","a","r","k","d","o","w","n">> \o NL \o text \o NL \o Fence

Bodies == UNION {[1..n -> BodyBlocks] : n \in 0..MaxBlocks}

Documents ==
  {MkDoc(TRUE, d, r, t, b) :
     d \in DateLines, r \in RefLines, t \in TagLines, b \in Bodies}
  \cup {MkDoc(FALSE, d, <<>>, <<>>, b) : d \in DateLines, b \in Bodies}

Contents == Documents \cup {Wrapped(doc) : doc \in Documents} \cup {<<>>}

\* the record published for the day before
PriorDoc ==
  MkDoc(TRUE, <<<<"d","a","t","e",":"," ","\"","2","0","2","5","-","0","9","-","0","6","\"">>>>, <<>>, <<>>,
        <<<<<<"#"," ","F","i","r","s","t"," ","R","e","a","d","i","n","g"," ","S","u","m","m","a","r","y">>>>, <<<<"A","l","p","h","a">>>>>>)

\* the sections map parse.js builds from the body
sectionsOf(content) == trimSections(collectSections(parseTree(content)))

\* JSON.stringify([devotion], null, 2)
parsedFile(data, secs) == stringify(Arr(<<Obj(devotion(data, secs))>>))

PriorFile ==
  LET m == matter(PriorDoc) IN parsedFile(m.data, sectionsOf(m.content))

(***************************************************************************)
(* State                                                                   *)
(*   md        public/exp/devotion.md                                      *)
(*   outFile   public/exp/devotions.json (NoFile before the first write)   *)
(*   pc        where the daily run is                                      *)
(*   result    how the last script ended                                   *)
(*   sections  the sections map of the last parse                          *)
(*   log       warnings printed so far                                     *)
(*   calls     the requests of the mobile application                      *)
(*   weeklyFeed, devotions, now, run   the feed update                     *)
(*   frontmatter, decoded   fm and parsed, the locals of emitJson          *)
(*   storage, scheduled, issued, clock   the daily notification            *)
(*   kv, kvAvailable, MEM_register, MEM_send, res, tokens, acknowledged    *)
(*             the push backend                                            *)
(***************************************************************************)
Init ==
  /\ md = <<>>
  /\ outFile \in {NoFile, PriorFile}
  /\ pc = "idle"
  /\ result = "none"
  /\ sections = EmptyObj
  /\ log = {}
  /\ calls = <<>>
  /\ weeklyFeed = NoFile /\ devotions = NoFile /\ now = <<>> /\ run = "off"
  /\ frontmatter = Undef /\ decoded = Undef
  /\ NotInstalled /\ NotDeployed

\* no warning, whatever the text begins with
warningsNone(markdown) == {}

warnings(markdown) ==
  IF startsWithFrontmatter(markdown) THEN {} ELSE {"no-frontmatter-start"}

\* scripts/exp/generate.js: the request succeeds and devotion.md is written
generateMarkdown ==
  /\ pc = "idle"
  /\ \E content \in Contents :
       LET markdown == stripCodeFences(content)
       IN /\ md' = markdown
          /\ log' = log \cup warnings(markdown)
  /\ pc' = "generated"
  /\ result' = "ok"
  /\ UNCHANGED <<outFile, sections>>
  /\ UNCHANGED <<callVars, feedVars, emitVars, appVars>>

\* the generator that always emits JSON after writing devotion.md
generateAndEmit ==
  /\ pc = "idle"
  /\ \E content \in Contents, yamlAvailable \in BOOLEAN :
       LET markdown == stripCodeFences(content)
       IN /\ md' = markdown
          /\ log' = log \cup warnings(markdown)
          /\ outFile' = emitJson(markdown, yamlAvailable)
  /\ pc' = "emitted"
  /\ result' = "ok"
  /\ UNCHANGED sections
  /\ UNCHANGED <<callVars, feedVars, emitVars, appVars>>

\* the request fails (no key, HTTP error): process.exit(1), nothing written
generateFails ==
  /\ pc = "idle"
  /\ pc' = "exited"
  /\ result' = "exit 1"
  /\ UNCHANGED <<md, outFile, sections, log>>
  /\ UNCHANGED <<callVars, feedVars, emitVars, appVars>>

\* scripts/exp/parse.js
parseMarkdownToJSON ==
  /\ pc \in {"generated", "emitted"}
  /\ LET m == matter(md)
     IN IF dateMissing(m.data)
        THEN /\ result' = "Error: Missing frontmatter.date"
             /\ UNCHANGED <<outFile, sections>>
        ELSE LET secs == sectionsOf(m.content)
             IN /\ result' = "ok"
                /\ sections' = secs
                /\ outFile' = parsedFile(m.data, secs)
  /\ pc' = "parsed"
  /\ UNCHANGED <<md, log>>
  /\ UNCHANGED <<callVars, feedVars, emitVars, appVars>>

Next == generateMarkdown \/ generateAndEmit \/ generateFails \/ parseMarkdownToJSON

Spec == Init /\ [][Next]_vars

(***************************************************************************)
(* Notions the properties are stated with.  They read the document itself  *)
(* (its frontmatter lines as written, the blocks of its body) and go       *)
(* through neither the section table nor the assembly of the record.       *)
(***************************************************************************)
\* parse.js ended normally: outFile is the array it wrote
Parsed == pc = "parsed" /\ result = "ok"

\* the record of that array
Record == outFile.v[1].v

\* the frontmatter block is well formed: a `---` line opens the text and a
\* later `---` line closes the block
WellFormed(text) ==
  LET ls == Lines(text)
  IN Len(ls) >= 2 /\ ls[1] = Delim /\ \E j \in 2..Len(ls) : ls[j] = Delim

RawLines(text) ==
  LET ls == Lines(text)
  IN IF WellFormed(text)
     THEN SubSeq(ls, 2, Min({j \in 2..Len(ls) : ls[j] = Delim}) - 1)
     ELSE <<>>

HasKey(text, key) ==
  \E i \in 1..Len(RawLines(text)) : startsWith(RawLines(text)[i], key \o <<":">>)

\* the value of a key as written, quotes included
RawValue(text, key) ==
  LET ls == RawLines(text)
      i == Min({n \in 1..Len(ls) : startsWith(ls[n], key \o <<":">>)})
  IN trim(SubSeq(ls[i], Len(key) + 2, Len(ls[i])))

Unquote(v) == IF Quoted(v, DQ) \/ Quoted(v, SQ) THEN Inner(v) ELSE v

\* secondReadingRef is written as null or none, in any case, quoted or not
ExplicitlyAbsent(text) ==
  /\ HasKey(text, <<"s","e","c","o","n","d","R","e","a","d","i","n","g","R","e","f">>)
  /\ toLowerCase(Unquote(RawValue(text, <<"s","e","c","o","n","d","R","e","a","d","i","n","g","R","e","f">>))) \in {<<"n","u","l","l">>, <<"n","o","n","e">>}

\* the blocks of the body of the document
Nodes == parseTree(matter(md).content)

\* a heading matches a name when their letters agree
Matches(title, name) == norm(title) = name

\* the heading a block stands under, 0 before the first heading
Owner(nodes, i) ==
  LET hs == {h \in 1..(i - 1) : nodes[h].type = "heading"}
  IN IF hs = {} THEN 0 ELSE Max(hs)

HasHeading(nodes, name) ==
  \E h \in 1..Len(nodes) : nodes[h].type = "heading" /\ Matches(nodes[h].text, name)

Under(nodes, name) ==
  SelectSeq([i \in 1..Len(nodes) |-> i],
            LAMBDA i : /\ nodes[i].type # "heading"
                       /\ Owner(nodes, i) # 0
                       /\ Matches(nodes[Owner(nodes, i)].text, name))

\* the text under the headings of that name: blocks in document order, one
\* per line, without surrounding whitespace
TextUnder(nodes, name) ==
  LET at == Under(nodes, name)
  IN trim(join([n \in 1..Len(at) |-> nodes[at[n]].text], NL))

SecondHeading == <<"s","e","c","o","n","d","r","e","a","d","i","n","g","s","u","m","m","a","r","y">>

Marker == <<"N","o"," ","s","e","c","o","n","d"," ","r","e","a","d","i","n","g"," ","t","o","d","a","y",".">>

CanonicalKeys ==
  {"date", "quote", "quoteCitation", "firstReading", "secondReading", "psalmSummary",
   "gospelSummary", "saintReflection", "dailyPrayer", "theologicalSynthesis",
   "exegesis", "tags", "usccbLink", "cycle", "weekdayCycle", "feast",
   "gospelReference", "firstReadingRef", "secondReadingRef", "psalmRef", "lectionaryKey"}

\* the content fields and the heading of each
ContentHeading ==
  [firstReading |-> <<"f","i","r","s","t","r","e","a","d","i","n","g","s","u","m","m","a","r","y">>,
   psalmSummary |-> <<"p","s","a","l","m","s","u","m","m","a","r","y">>,
   gospelSummary |-> <<"g","o","s","p","e","l","s","u","m","m","a","r","y">>,
   saintReflection |-> <<"s","a","i","n","t","r","e","f","l","e","c","t","i","o","n">>,
   dailyPrayer |-> <<"d","a","i","l","y","p","r","a","y","e","r">>,
   theologicalSynthesis |-> <<"t","h","e","o","l","o","g","i","c","a","l","s","y","n","t","h","e","s","i","s">>,
   exegesis |-> <<"d","e","t","a","i","l","e","d","s","c","r","i","p","t","u","r","a","l","e","x","e","g","e","s","i","s">>]

\* C1: when secondReadingRef is written as null or none (any case, quoted or
\* not) the emitted secondReading is null, whatever the body holds.
C1_ExplicitNullGivesNull ==
  (Parsed /\ ExplicitlyAbsent(md)) => Record.secondReading = Null

\* outFile holds exactly one record, with every canonical key and a date
CompleteRecordFile(f) ==
  /\ f.k = "arr" /\ Len(f.v) = 1 /\ f.v[1].k = "obj"
  /\ CanonicalKeys \subseteq DOMAIN f.v[1].v
  /\ Truthy(f.v[1].v.date)

\* C2: a parse that fails writes nothing, a frontmatter without a date key
\* makes it fail, and a parse that does not fail writes exactly one complete
\* record.
C2_FatalFailureWritesNothing ==
  [][pc' = "parsed" =>
       /\ (result' # "ok" => outFile' = outFile)
       /\ (result' = "ok" => CompleteRecordFile(outFile'))
       /\ (~HasKey(md, <<"d","a","t","e">>) => result' # "ok" /\ outFile' = outFile)]_vars

C2_Witness ==
  /\ pc = "parsed" /\ result # "ok"
  /\ WellFormed(md) /\ ~HasKey(md, <<"d","a","t","e">>)
  /\ outFile = PriorFile

\* C3: a document that does not start with the `---` delimiter is rejected
\* and nothing is written to the output file for it, by either script that
\* writes the file.
C3_NoDelimiterNoOutput ==
  [][(pc' \in {"emitted", "parsed"} /\ ~startsWith(md', Delim)) =>
       (result' # "ok" /\ outFile' = outFile)]_vars

\* C4: for a well-formed frontmatter with a date key the parse succeeds and
\* the record's date is the value as written.
C4_DateVerbatim ==
  (pc = "parsed" /\ WellFormed(md) /\ HasKey(md, <<"d","a","t","e">>)) =>
    (result = "ok" /\ Record.date = Str(Unquote(RawValue(md, <<"d","a","t","e">>))))

\* C5: without an explicit null/none and without text under a second-reading
\* heading, the emitted secondReading is the empty string, not null.
C5_FallbackIsEmptyString ==
  (Parsed /\ ~ExplicitlyAbsent(md) /\ TextUnder(Nodes, SecondHeading) = <<>>) =>
    Record.secondReading = Str(<<>>)

\* C6: with secondReadingRef a non-null string and a Second Reading Summary
\* section in the body, the emitted secondReading is that section's trimmed
\* text.
C6_SectionTextUsed ==
  (/\ Parsed
   /\ HasKey(md, <<"s","e","c","o","n","d","R","e","a","d","i","n","g","R","e","f">>) /\ ~ExplicitlyAbsent(md)
   /\ Unquote(RawValue(md, <<"s","e","c","o","n","d","R","e","a","d","i","n","g","R","e","f">>)) # <<>>
   /\ HasHeading(Nodes, SecondHeading)) =>
    Record.secondReading = Str(TextUnder(Nodes, SecondHeading))

\* C7: when the second-reading section is the marker sentence, the emitted
\* secondReading is null.
C7_MarkerGivesNull ==
  (Parsed /\ TextUnder(Nodes, SecondHeading) = Marker) => Record.secondReading = Null

\* C8: every emitted record has every canonical key; what is absent shows
\* as an empty or null value.
C8_EveryCanonicalKey ==
  Parsed =>
    /\ outFile.k = "arr" /\ Len(outFile.v) = 1 /\ outFile.v[1].k = "obj"
    /\ CanonicalKeys \subseteq DOMAIN Record
    /\ \A f \in DOMAIN Record : Record[f].k \in {"str", "null", "arr", "num"}

C8_Witness ==
  /\ Parsed /\ Nodes = <<>>
  /\ ~HasKey(md, <<"t","a","g","s">>) /\ ~HasKey(md, <<"s","e","c","o","n","d","R","e","a","d","i","n","g","R","e","f">>)
  /\ Record.quote = Str(<<>>) /\ Record.secondReading = Null
  /\ Record.tags = Arr(<<>>) /\ Record.lectionaryKey = Str(<<>>)

\* C9: each content field is the trimmed text of its section, and the empty
\* string when the body has no such section; a body without any recognized
\* heading parses, with every content field empty.
C9_ContentFields ==
  /\ (pc = "parsed" /\ WellFormed(md) /\ Truthy(Get(matter(md).data, <<"d","a","t","e">>))) =>
       result = "ok"
  /\ Parsed =>
       \A f \in DOMAIN ContentHeading :
         Record[f] = Str(TextUnder(Nodes, ContentHeading[f]))

C9_Witness ==
  /\ Parsed
  /\ \E i \in 1..Len(Nodes) : Nodes[i].type = "paragraph" /\ Owner(Nodes, i) # 0
  /\ \A f \in DOMAIN ContentHeading :
       ~HasHeading(Nodes, ContentHeading[f]) /\ Record[f] = Str(<<>>)

Bracketed(v) == Len(v) >= 2 /\ v[1] = "[" /\ v[Len(v)] = "]"

\* the items of a bracketed list as written
ListItems(v) ==
  LET parts == split(Inner(v), ",") IN [i \in 1..Len(parts) |-> trim(parts[i])]

\* the trimmed non-empty items of a comma-separated string
CommaItems(v) ==
  LET parts == split(v, ",")
  IN SelectSeq([i \in 1..Len(parts) |-> Str(trim(parts[i]))], LAMBDA x : x.v # <<>>)

FaithHope == Arr(<<Str(<<"F","a","i","t","h">>), Str(<<"H","o","p","e">>)>>)

TitleWords ==
  {<<<<"F","i","r","s","t">>, <<"R","e","a","d","i","n","g">>, <<"S","u","m","m","a","r","y">>>>, <<<<"D","a","i","l","y">>, <<"P","r","a","y","e","r">>>>,
   <<<<"F","u","n">>, <<"F","a","c","t">>>>, <<<<"C","o","n","s","t","r","u","c","t","o","r">>>>}

Separators == {<<" ">>, <<"-">>, <<" "," "," ">>}

Endings == {<<>>, <<"!","!">>, <<":">>}

Cases == {"asis", "lower", "upper"}

ToUpperChar(c) ==
  IF \E i \in 1..26 : LowerCase[i] = c
  THEN UpperCase[CHOOSE i \in 1..26 : LowerCase[i] = c]
  ELSE c

InCase(s, case) ==
  CASE case = "lower" -> toLowerCase(s)
    [] case = "upper" -> [i \in 1..Len(s) |-> ToUpperChar(s[i])]
    [] OTHER -> s

\* the words of a title, a separator of its own after each but the last
RECURSIVE spell(_, _)
spell(w, seps) ==
  IF Len(w) = 1 THEN w[1]
  ELSE w[1] \o seps[1] \o spell(Tail(w), Tail(seps))

DecoratedTitles ==
  UNION {{InCase(spell(w, seps), c) \o e :
            seps \in [1..(Len(w) - 1) -> Separators], c \in Cases, e \in Endings} :
         w \in TitleWords}

HeadingDocuments ==
  {MkDoc(TRUE, <<<<"d","a","t","e",":"," ","\"","2","0","2","5","-","0","9","-","0","7","\"">>>>, <<>>, <<>>,
         <<<<<<"#"," ">> \o t>>, <<<<"A","l","p","h","a">>, <<"B","e","t","a">>>>>>) : t \in DecoratedTitles}

\* scripts/exp/generate.js, the service answering with such a document
generateDecorated ==
  /\ pc = "idle"
  /\ \E content \in HeadingDocuments :
       LET markdown == stripCodeFences(content)
       IN /\ md' = markdown
          /\ log' = log \cup warnings(markdown)
  /\ pc' = "generated"
  /\ result' = "ok"
  /\ UNCHANGED <<outFile, sections>>
  /\ UNCHANGED <<callVars, feedVars, emitVars, appVars>>

NextHeadings == generateDecorated \/ parseMarkdownToJSON

SpecHeadings == Init /\ [][NextHeadings]_vars

\* the letters of a heading, lower-cased, everything else left out
LettersOf(t) ==
  LET low == [i \in 1..Len(t) |-> ToLowerChar(t[i])]
  IN SelectSeq(low, LAMBDA c : \E i \in 1..26 : LowerCase[i] = c)

\* the key the parse filed the one section of the document under
FiledUnder == CHOOSE k \in DOMAIN sections : k # <<"i","n","t","r","o">>

DecoratedExample == <<"F","i","r","s","t","-","R","e","a","d","i","n","g"," "," "," ","S","u","m","m","a","r","y","!","!">>

\* C11: headings with the same letters, whatever their case, spacing and
\* punctuation, map to the same section key: every title with the letters
\* of the parsed document's heading has the key that heading was filed
\* under, and a heading with the letters of "First Reading Summary", such
\* as "First-Reading   Summary!!", fills firstReading.
C11_HeadingMatchIgnoresDecoration ==
  Parsed =>
    LET title == Nodes[1].text
    IN /\ DOMAIN sections = {<<"i","n","t","r","o">>, FiledUnder}
       /\ \A t \in DecoratedTitles :
            LettersOf(t) = LettersOf(title) => headingKey(t) = FiledUnder
       /\ LettersOf(title) = LettersOf(<<"F","i","r","s","t"," ","R","e","a","d","i","n","g"," ","S","u","m","m","a","r","y">>) =>
            /\ FiledUnder = <<"f","i","r","s","t","R","e","a","d","i","n","g">>
            /\ Record.firstReading = Str(<<"A","l","p","h","a","\n","B","e","t","a">>)

C11_Witness ==
  /\ Parsed
  /\ Nodes[1].type = "heading" /\ Nodes[1].text = DecoratedExample
  /\ sections[<<"f","i","r","s","t","R","e","a","d","i","n","g">>] = <<"A","l","p","h","a","\n","B","e","t","a">>
  /\ Record.firstReading = Str(<<"A","l","p","h","a","\n","B","e","t","a">>)

\* the letters of the headings of the canonical table
CanonicalLetters ==
  {ContentHeading[f] : f \in DOMAIN ContentHeading} \cup {SecondHeading}

\* C12: a heading outside the canonical table raises no error and loses no
\* content: the parse emits a record and the sections map holds the text
\* under the heading, under the key extra_ followed by the heading's letters.
C12_UnrecognizedHeadingKept ==
  (pc = "parsed" /\ LettersOf(Nodes[1].text) \notin CanonicalLetters) =>
    /\ result = "ok"
    /\ LET key == <<"e","x","t","r","a","_">> \o LettersOf(Nodes[1].text)
       IN key \in DOMAIN sections /\ sections[key] = <<"A","l","p","h","a","\n","B","e","t","a">>

\* the same for every such heading but Constructor
C12_ExceptConstructor ==
  (pc = "parsed" /\ LettersOf(Nodes[1].text) \notin CanonicalLetters
     /\ LettersOf(Nodes[1].text) # <<"c","o","n","s","t","r","u","c","t","o","r">>) =>
    /\ result = "ok"
    /\ LET key == <<"e","x","t","r","a","_">> \o LettersOf(Nodes[1].text)
       IN key \in DOMAIN sections /\ sections[key] = <<"A","l","p","h","a","\n","B","e","t","a">>

(***************************************************************************)
(* Documents that differ in their references.  Each of firstReadingRef,    *)
(* psalmRef and gospelReference is left out, written as null, written as   *)
(* the empty string or given a value; the three lines come in this order   *)
(* or in the opposite one.                                                 *)
(***************************************************************************)
RefValues == {<<>>, <<<<"n","u","l","l">>>>, <<<<"\"","\"">>>>}

FirstRefLines ==
  {IF v = <<>> THEN <<>> ELSE <<<<"f","i","r","s","t","R","e","a","d","i","n","g","R","e","f",":"," ">> \o v[1]>> :
     v \in RefValues \cup {<<<<"\"","W","i","s"," ","9",":","1","3","-","1","8","a","\"">>>>}}

PsalmRefLines ==
  {IF v = <<>> THEN <<>> ELSE <<<<"p","s","a","l","m","R","e","f",":"," ">> \o v[1]>> :
     v \in RefValues \cup {<<<<"\"","P","s"," ","9","0",":","3","-","4","\"">>>>}}

GospelRefLines ==
  {IF v = <<>> THEN <<>> ELSE <<<<"g","o","s","p","e","l","R","e","f","e","r","e","n","c","e",":"," ">> \o v[1]>> :
     v \in RefValues \cup {<<<<"L","k"," ","1","4",":","2","5","-","3","3">>>>}}

RefDocuments ==
  {MkDoc(TRUE, <<<<"d","a","t","e",":"," ","\"","2","0","2","5","-","0","9","-","0","7","\"">>>>,
         IF up THEN g \o p \o f ELSE f \o p \o g, <<>>, <<>>) :
     f \in FirstRefLines, p \in PsalmRefLines, g \in GospelRefLines, up \in BOOLEAN}

\* scripts/exp/generate.js, the service answering with such a document
generateWithRefs ==
  /\ pc = "idle"
  /\ \E content \in RefDocuments :
       LET markdown == stripCodeFences(content)
       IN /\ md' = markdown
          /\ log' = log \cup warnings(markdown)
  /\ pc' = "generated"
  /\ result' = "ok"
  /\ UNCHANGED <<outFile, sections>>
  /\ UNCHANGED <<callVars, feedVars, emitVars, appVars>>

NextRefs == generateWithRefs \/ parseMarkdownToJSON

SpecRefs == Init /\ [][NextRefs]_vars

\* the value of a reference as written when it is a non-empty one
RefAsWritten(text, key) ==
  IF HasKey(text, key) /\ RawValue(text, key) \notin {<<>>, <<"n","u","l","l">>, <<"\"","\"">>}
  THEN <<Unquote(RawValue(text, key))>>
  ELSE <<>>

RefsAsWritten(text) ==
  RefAsWritten(text, <<"f","i","r","s","t","R","e","a","d","i","n","g","R","e","f">>) \o RefAsWritten(text, <<"p","s","a","l","m","R","e","f">>)
    \o RefAsWritten(text, <<"g","o","s","p","e","l","R","e","f","e","r","e","n","c","e">>)

Bar == "|"

\* C13: lectionaryKey is the non-empty values of firstReadingRef, psalmRef
\* and gospelReference, in this order, with one | between neighbours: no |
\* at either end, no two in a row, the empty string when none is given.
C13_LectionaryKeyJoinsRefs ==
  Parsed =>
    LET given == RefsAsWritten(md)
        key == Record.lectionaryKey.v
    IN /\ Record.lectionaryKey.k = "str"
       /\ key = join(given, <<Bar>>)
       /\ given = <<>> => key = <<>>
       /\ key # <<>> => key[1] # Bar /\ key[Len(key)] # Bar
       /\ \A i \in 1..(Len(key) - 1) : ~(key[i] = Bar /\ key[i + 1] = Bar)
       /\ Len(SelectSeq(key, LAMBDA c : c = Bar)) = Max({Len(given) - 1, 0})

C13_Witness ==
  /\ Parsed
  /\ RefsAsWritten(md) = <<<<"W","i","s"," ","9",":","1","3","-","1","8","a">>, <<"P","s"," ","9","0",":","3","-","4">>>>
  /\ HasKey(md, <<"g","o","s","p","e","l","R","e","f","e","r","e","n","c","e">>)
  /\ Record.lectionaryKey = Str(<<"W","i","s"," ","9",":","1","3","-","1","8","a","|","P","s"," ","9","0",":","3","-","4">>)

(***************************************************************************)
(* Answers with code fences.  generateMarkdown takes the answer of the     *)
(* service into its variable markdown and then assigns it the result of    *)
(* stripCodeFences; the two assignments are two steps here, the variable   *)
(* being md.  An answer is a text with or without a fence line before it   *)
(* and with or without a fence line after it.                              *)
(***************************************************************************)
FencedBlock == Fence \o <<"\n","c","o","d","e","\n">> \o Fence

AnswerTexts ==
  {<<"A","l","p","h","a">>,
   <<"-","-","-","\n","d","a","t","e",":"," ","\"","2","0","2","5","-","0","9","-","0","7","\"","\n","-","-","-","\n","\n","A","l","p","h","a">>,
   <<"A","l","p","h","a","\n">> \o FencedBlock \o <<"\n","B","e","t","a">>,
   <<"A","l","p","h","a","\n">> \o FencedBlock,
   FencedBlock \o <<"\n","B","e","t","a">>}

Openings == {<<>>, Fence \o NL, Fence \o <<"m","a","r","k","d","o","w","n","\n">>, <<"\n"," ">> \o Fence \o NL}

Closings == {<<>>, NL \o Fence, NL \o Fence \o NL, NL \o Fence \o <<" "," ","\n">>}

Answers == {o \o t \o c : o \in Openings, t \in AnswerTexts, c \in Closings}

\* let markdown = data.choices?.[0]?.message?.content || ''
receiveAnswer ==
  /\ pc = "idle"
  /\ md' \in Answers
  /\ pc' = "received"
  /\ UNCHANGED <<outFile, result, sections, log>>
  /\ UNCHANGED <<callVars, feedVars, emitVars, appVars>>

\* markdown = stripCodeFences(markdown), up to the end of generateMarkdown
normalizeAnswer ==
  /\ pc = "received"
  /\ md' = stripCodeFences(md)
  /\ log' = log \cup warnings(md')
  /\ pc' = "generated"
  /\ result' = "ok"
  /\ UNCHANGED <<outFile, sections>>
  /\ UNCHANGED <<callVars, feedVars, emitVars, appVars>>

NextFences == receiveAnswer \/ normalizeAnswer

SpecFences == Init /\ [][NextFences]_vars

\* a text with its line ends unified and no whitespace around it
Tidy(t) == trim(normalizeNewlines(t))

OpensWithFence(t) == startsWith(Lines(t)[1], Fence)

ClosesWithFence(t) == Lines(t)[Len(Lines(t))] = Fence

\* a fence line opens the text and another fence line closes it
IsWrapped(t) == Len(Lines(t)) >= 2 /\ OpensWithFence(t) /\ ClosesWithFence(t)

\* the text between the first and the last line
Unwrapped(t) == trim(join(SubSeq(Lines(t), 2, Len(Lines(t)) - 1), NL))

\* C14: stripCodeFences removes the opening and the closing fence line
\* together when both are there, and leaves everything else as it is: a
\* fence line without its partner stays, and so do fences inside the text.
C14_OnlyMatchedWrapperStripped ==
  [][(pc = "received" /\ pc' = "generated") =>
       md' = IF IsWrapped(Tidy(md)) THEN Unwrapped(Tidy(md)) ELSE Tidy(md)]_vars

\* the same, for the texts that have both fence lines or neither
C14_BothOrNeither ==
  [][(pc = "received" /\ pc' = "generated"
        /\ (OpensWithFence(Tidy(md)) <=> ClosesWithFence(Tidy(md)))) =>
       md' = IF IsWrapped(Tidy(md)) THEN Unwrapped(Tidy(md)) ELSE Tidy(md)]_vars

\* C15: a text that is already normalised and has no fence wrapper comes
\* out of stripCodeFences as it went in, and no error is raised.
C15_NormalizedIsFixed ==
  [][(pc = "received" /\ pc' = "generated" /\ md = Tidy(md) /\ ~IsWrapped(md)) =>
       (md' = md /\ result' = "ok")]_vars

\* the same, for the texts with a fence line at neither end
C15_NoFenceAtEitherEnd ==
  [][(pc = "received" /\ pc' = "generated" /\ md = Tidy(md)
        /\ ~OpensWithFence(md) /\ ~ClosesWithFence(md)) =>
       (md' = md /\ result' = "ok")]_vars

\* a calendar date in the form YYYY-MM-DD
IsCalendarDate(v) ==
  /\ Len(v) = 10
  /\ v[5] = "-" /\ v[8] = "-"
  /\ \A i \in {1, 2, 3, 4, 6, 7, 9, 10} : v[i] \in Digits

\* C16: every record the parse emits has a date, a string in the form
\* YYYY-MM-DD, and a document without a date is rejected with nothing
\* emitted for it.
C16_DateWellFormed ==
  /\ Parsed => ("date" \in DOMAIN Record /\ Record.date.k = "str"
                  /\ IsCalendarDate(Record.date.v))
  /\ (pc = "parsed" /\ ~HasKey(md, <<"d","a","t","e">>)) => result # "ok"

\* the second half alone: a document without a date is rejected
C16_AbsentDateRejected ==
  (pc = "parsed" /\ ~HasKey(md, <<"d","a","t","e">>)) => result # "ok"

(***************************************************************************)
(* Two invocations of scripts/exp/parse.js side by side, for two days of a *)
(* backfill, each followed statement by statement: the read of devotion.md,*)
(* the decoding, one pass of the loop over the blocks at a time, the       *)
(* assembly of the record and the write of devotions.json.  devotion.md    *)
(* may be replaced at any moment.                                          *)
(***************************************************************************)
CallDocuments ==
  {<<"-","-","-","\n","d","a","t","e",":"," ","\"","2","0","2","5","-","0","9","-","0","7","\"","\n","-","-","-","\n","\n","I","n","t","r","o","\n","\n","#"," ","F","i","r","s","t"," ","R","e","a","d","i","n","g"," ","S","u","m","m","a","r","y","\n","\n","A","l","p","h","a","\n","\n","B","e","t","a">>,
   <<"-","-","-","\n","d","a","t","e",":"," ","\"","2","0","2","5","-","0","9","-","0","8","\"","\n","-","-","-","\n","\n","#"," ","F","u","n"," ","F","a","c","t","\n","\n","G","a","m","m","a","\n","\n","#"," ","D","a","i","l","y"," ","P","r","a","y","e","r","\n","\n","D","e","l","t","a">>,
   <<"-","-","-","\n","q","u","o","t","e",":"," ","\"","G","a","m","m","a","\"","\n","-","-","-","\n","\n","A","l","p","h","a">>}

NotStarted ==
  [pc |-> "start", text |-> <<>>, data |-> EmptyObj, nodes |-> <<>>, i |-> 0,
   currentKey |-> <<>>, sections |-> EmptyObj, devotion |-> EmptyObj]

InitCalls ==
  /\ md \in CallDocuments
  /\ outFile = NoFile
  /\ pc = "idle" /\ result = "none" /\ sections = EmptyObj /\ log = {}
  /\ calls = [c \in Calls |-> NotStarted]
  /\ weeklyFeed = NoFile /\ devotions = NoFile /\ now = <<>> /\ run = "off"
  /\ frontmatter = Undef /\ decoded = Undef
  /\ NotInstalled /\ NotDeployed

\* devotion.md is written anew, for another day
replaceMarkdown ==
  /\ md' \in CallDocuments \ {md}
  /\ UNCHANGED <<outFile, pc, result, sections, log, callVars, feedVars, emitVars, appVars>>

\* const md = await fs.readFile(MD_PATH, 'utf8')
readFile(c) ==
  /\ calls[c].pc = "start"
  /\ calls' = [calls EXCEPT ![c].pc = "read", ![c].text = md]
  /\ UNCHANGED <<md, outFile, pc, result, sections, log, feedVars, emitVars, appVars>>

\* matter(md), the test of the date, the tree, the empty intro section
decode(c) ==
  /\ calls[c].pc = "read"
  /\ LET m == matter(calls[c].text)
     IN calls' =
          IF dateMissing(m.data)
          THEN [calls EXCEPT ![c].pc = "failed"]
          ELSE [calls EXCEPT ![c].pc = "loop",
                             ![c].data = m.data,
                             ![c].nodes = parseTree(m.content),
                             ![c].i = 1,
                             ![c].currentKey = <<"i","n","t","r","o">>,
                             ![c].sections = (<<"i","n","t","r","o">> :> <<>>)]
  /\ UNCHANGED <<md, outFile, pc, result, sections, log, feedVars, emitVars, appVars>>

\* one pass of for (const node of tree.children ?? [])
visit(c) ==
  /\ calls[c].pc = "loop"
  /\ calls[c].i <= Len(calls[c].nodes)
  /\ LET node == calls[c].nodes[calls[c].i]
         secs == accumulated(calls, c)
         key == headingKey(node.text)
     IN calls' =
          IF node.type = "heading"
          THEN [calls EXCEPT ![c].currentKey = key,
                             ![c].sections = openSection(secs, key),
                             ![c].i = @ + 1]
          ELSE [calls EXCEPT ![c].sections =
                               IF node.text = <<>> THEN secs
                               ELSE IF calls[c].currentKey \in DOMAIN secs
                                 THEN [secs EXCEPT
                                         ![calls[c].currentKey] = appendText(@, node.text)]
                               ELSE (calls[c].currentKey
                                       :> appendText(<<"u","n","d","e","f","i","n","e","d">>, node.text)) @@ secs,
                             ![c].i = @ + 1]
  /\ UNCHANGED <<md, outFile, pc, result, sections, log, feedVars, emitVars, appVars>>

\* the trimming of the sections, tags and the devotion object
buildDevotion(c) ==
  /\ calls[c].pc = "loop"
  /\ calls[c].i > Len(calls[c].nodes)
  /\ LET secs == trimSections(accumulated(calls, c))
     IN calls' = [calls EXCEPT ![c].pc = "built",
                               ![c].sections = secs,
                               ![c].devotion = devotion(calls[c].data, secs)]
  /\ UNCHANGED <<md, outFile, pc, result, sections, log, feedVars, emitVars, appVars>>

\* await fs.writeFile(OUT_PATH, JSON.stringify([devotion], null, 2), 'utf8')
writeFile(c) ==
  /\ calls[c].pc = "built"
  /\ outFile' = stringify(Arr(<<Obj(calls[c].devotion)>>))
  /\ calls' = [calls EXCEPT ![c].pc = "done"]
  /\ UNCHANGED <<md, pc, result, sections, log, feedVars, emitVars, appVars>>

NextCalls ==
  \/ replaceMarkdown
  \/ \E c \in Calls :
       readFile(c) \/ decode(c) \/ visit(c) \/ buildDevotion(c) \/ writeFile(c)

SpecCalls == InitCalls /\ [][NextCalls]_vars

\* what an invocation run alone makes of a text
FailsAlone(text) == dateMissing(matter(text).data)

RecordAlone(text) ==
  LET m == matter(text) IN devotion(m.data, sectionsOf(m.content))

\* C17: the record of an invocation depends on the text it read and on
\* nothing else: however the two invocations interleave, each builds the
\* record it builds when run alone on its text and fails exactly when it
\* fails alone; two invocations that read the same text build the same
\* record, and devotions.json holds the record of an invocation that is done.
C17_CallsDoNotInterfere ==
  /\ outFile # NoFile =>
       \E c \in Calls : /\ calls[c].pc = "done"
                        /\ outFile = stringify(Arr(<<Obj(RecordAlone(calls[c].text))>>))
  /\ \A c \in Calls :
    /\ calls[c].pc \in {"built", "done"} =>
         (~FailsAlone(calls[c].text) /\ calls[c].devotion = RecordAlone(calls[c].text))
    /\ calls[c].pc = "failed" => FailsAlone(calls[c].text)
    /\ calls[c].pc = "loop" => ~FailsAlone(calls[c].text)
    /\ \A d \in Calls :
         (calls[c].pc = "built" /\ calls[d].pc = "built"
            /\ calls[c].text = calls[d].text) =>
           calls[c].devotion = calls[d].devotion

C17_Witness ==
  /\ calls["a"].pc = "built" /\ calls["b"].pc = "done"
  /\ calls["a"].text # calls["b"].text
  /\ calls["a"].devotion # calls["b"].devotion
  /\ calls["a"].devotion = RecordAlone(calls["a"].text)
  /\ outFile = stringify(Arr(<<Obj(calls["b"].devotion)>>))

(***************************************************************************)
(* scripts/updateDevotion.js, the daily update.  public/weeklyfeed.json is *)
(* an array of up to MaxEntries entries; the clock is read in UTC, the     *)
(* month counted from 0 as getUTCMonth does.                               *)
(***************************************************************************)
DigitChars == <<"0","1","2","3","4","5","6","7","8","9">>

\* String(n) of a natural number
RECURSIVE toDecimal(_)
toDecimal(n) ==
  IF n < 10 THEN <<DigitChars[n + 1]>>
  ELSE toDecimal(n \div 10) \o <<DigitChars[(n % 10) + 1]>>

\* s.padStart(2, "0")
padStart2(s) ==
  IF Len(s) >= 2 THEN s ELSE [i \in 1..(2 - Len(s)) |-> "0"] \o s

\* year, month and day joined as they are, without padding
todayStringUnpadded(t) ==
  toDecimal(t.year) \o <<"-">> \o toDecimal(t.month + 1) \o <<"-">> \o toDecimal(t.date)

\* `${year}-${month}-${day}`
todayString(t) ==
  toDecimal(t.year) \o <<"-">> \o padStart2(toDecimal(t.month + 1))
    \o <<"-">> \o padStart2(toDecimal(t.date))

\* weeklyFeed.find(entry => entry.date === todayString)
find(feed, today) ==
  LET hits == {i \in 1..Len(feed) : Get(feed[i].v, "date") = Str(today)}
  IN IF hits = {} THEN Undef ELSE feed[Min(hits)]

Clocks ==
  {[year |-> 2025, month |-> 8, date |-> 7], [year |-> 2025, month |-> 8, date |-> 8],
   [year |-> 2025, month |-> 11, date |-> 31], [year |-> 2026, month |-> 0, date |-> 1]}

Entries ==
  {Obj([date |-> Str(<<"2","0","2","5","-","0","9","-","0","7">>), quote |-> Str(<<"A">>)]),
   Obj([date |-> Str(<<"2","0","2","5","-","0","9","-","0","7">>), quote |-> Str(<<"B">>)]),
   Obj([date |-> Str(<<"2","0","2","5","-","0","9","-","0","8">>), quote |-> Str(<<"A">>)]),
   Obj([date |-> Str(<<"2","0","2","5","-","9","-","7">>), quote |-> Str(<<"A">>)]),
   Obj([date |-> Str(<<"2","0","2","5","-","1","2","-","3","1">>), quote |-> Str(<<"A">>)]),
   Obj([quote |-> Str(<<"A">>)])}

Feeds == UNION {[1..n -> Entries] : n \in 0..MaxEntries}

InitFeed ==
  /\ md = <<>> /\ outFile = NoFile
  /\ pc = "idle" /\ result = "none" /\ sections = EmptyObj /\ log = {}
  /\ calls = <<>>
  /\ weeklyFeed \in {Arr(f) : f \in Feeds}
  /\ devotions = NoFile
  /\ now \in Clocks
  /\ run = "scheduled"
  /\ frontmatter = Undef /\ decoded = Undef
  /\ NotInstalled /\ NotDeployed

\* the whole script
updateDevotion ==
  /\ run = "scheduled"
  /\ LET todaysEntry == find(weeklyFeed.v, todayString(now))
     IN devotions' = IF Truthy(todaysEntry)
                     THEN stringify(Arr(<<todaysEntry>>))
                     ELSE stringify(Arr(<<>>))
  /\ run' = "done"
  /\ UNCHANGED <<weeklyFeed, now>>
  /\ UNCHANGED <<md, outFile, pc, result, sections, log, callVars, emitVars, appVars>>

\* the workflow is scheduled again on a later day
nextDay ==
  /\ run = "done"
  /\ now' \in Clocks \ {now}
  /\ run' = "scheduled"
  /\ UNCHANGED <<weeklyFeed, devotions>>
  /\ UNCHANGED <<md, outFile, pc, result, sections, log, callVars, emitVars, appVars>>

NextFeed == updateDevotion \/ nextDay

SpecFeed == InitFeed /\ [][NextFeed]_vars

\* the date each clock shows, in the form YYYY-MM-DD
DateShown(t) ==
  CASE t = [year |-> 2025, month |-> 8, date |-> 7] -> <<"2","0","2","5","-","0","9","-","0","7">>
    [] t = [year |-> 2025, month |-> 8, date |-> 8] -> <<"2","0","2","5","-","0","9","-","0","8">>
    [] t = [year |-> 2025, month |-> 11, date |-> 31] -> <<"2","0","2","5","-","1","2","-","3","1">>
    [] t = [year |-> 2026, month |-> 0, date |-> 1] -> <<"2","0","2","6","-","0","1","-","0","1">>

\* the entries of a feed dated today
EntriesOf(feed, today) ==
  {feed.v[i] : i \in {j \in 1..Len(feed.v) :
                        "date" \in DOMAIN feed.v[j].v /\ feed.v[j].v.date = Str(today)}}

Visits(c) ==
  /\ calls[c].pc = "loop" /\ calls'[c].pc = "loop"
  /\ calls'[c].i # calls[c].i

\* C19: the body is segmented in one forward pass.  The pass starts in the
\* intro section; each step takes the next block and only that one; a
\* heading makes the key of that heading the current section and adds no
\* text to any section; any other block is appended, with a newline, to the
\* current section and to no other; at the end every section is kept.
C19_SingleForwardPass ==
  [][\A c \in Calls :
       /\ (calls[c].pc = "read" /\ calls'[c].pc = "loop") =>
            /\ calls'[c].i = 1 /\ calls'[c].currentKey = <<"i","n","t","r","o">>
            /\ calls'[c].sections = (<<"i","n","t","r","o">> :> <<>>)
       /\ Visits(c) =>
            LET node == calls[c].nodes[calls[c].i]
                old == calls[c].sections
                new == calls'[c].sections
                cur == calls[c].currentKey
            IN /\ calls'[c].i = calls[c].i + 1
               /\ calls'[c].nodes = calls[c].nodes
               /\ IF node.type = "heading"
                  THEN /\ calls'[c].currentKey = headingKey(node.text)
                       /\ DOMAIN new = DOMAIN old \cup {headingKey(node.text)}
                       /\ \A k \in DOMAIN old : new[k] = old[k]
                       /\ \A k \in DOMAIN new \ DOMAIN old : new[k] = <<>>
                  ELSE /\ calls'[c].currentKey = cur
                       /\ DOMAIN new = DOMAIN old
                       /\ new[cur] = old[cur] \o node.text \o NL
                       /\ \A k \in DOMAIN old \ {cur} : new[k] = old[k]
       /\ (calls[c].pc = "loop" /\ calls'[c].pc = "built") =>
            /\ calls[c].i = Len(calls[c].nodes) + 1
            /\ DOMAIN calls'[c].sections = DOMAIN calls[c].sections
            /\ \A k \in DOMAIN calls[c].sections :
                 calls'[c].sections[k] = trim(calls[c].sections[k])]_vars

C19_Witness ==
  /\ calls["a"].pc = "built"
  /\ Len(calls["a"].nodes) = 4 /\ calls["a"].i = 5
  /\ calls["a"].nodes[1].type = "paragraph" /\ calls["a"].nodes[2].type = "heading"
  /\ calls["a"].sections =
       (<<"i","n","t","r","o">> :> <<"I","n","t","r","o">>) @@ (<<"f","i","r","s","t","R","e","a","d","i","n","g">> :> <<"A","l","p","h","a","\n","B","e","t","a">>)

\* the text before the first heading: its blocks, one per line
IntroText(nodes) ==
  LET at == SelectSeq([i \in 1..Len(nodes) |-> i],
                      LAMBDA i : nodes[i].type # "heading" /\ Owner(nodes, i) = 0)
  IN trim(join([n \in 1..Len(at) |-> nodes[at[n]].text], NL))

\* the blocks from the first heading on
FromFirstHeading(nodes) ==
  LET hs == {h \in 1..Len(nodes) : nodes[h].type = "heading"}
  IN IF hs = {} THEN <<>> ELSE SubSeq(nodes, Min(hs), Len(nodes))

\* the record of a document with these frontmatter data and these blocks
RecordOf(data, nodes) ==
  stringify(Obj(devotion(data, trimSections(collectSections(nodes))))).v

\* C20: what the body holds before its first heading is collected under
\* the intro key, and the emitted record is the one the document gives
\* with that text taken out: no field of the record draws on it.
C20_IntroOutsideRecord ==
  Parsed =>
    LET m == matter(md)
        nodes == parseTree(m.content)
    IN /\ <<"i","n","t","r","o">> \in DOMAIN sections
       /\ sections[<<"i","n","t","r","o">>] = IntroText(nodes)
       /\ Record = RecordOf(m.data, FromFirstHeading(nodes))
       /\ \A f \in DOMAIN ContentHeading :
            ~HasHeading(nodes, ContentHeading[f]) => Record[f] = Str(<<>>)

C20_Witness ==
  /\ Parsed
  /\ IntroText(Nodes) = <<"A","l","p","h","a","\n","B","e","t","a">>
  /\ sections[<<"i","n","t","r","o">>] = <<"A","l","p","h","a","\n","B","e","t","a">>
  /\ HasHeading(Nodes, <<"f","i","r","s","t","r","e","a","d","i","n","g","s","u","m","m","a","r","y">>)
  /\ \A f \in DOMAIN Record : Record[f] # Str(<<"A","l","p","h","a","\n","B","e","t","a">>)

(***************************************************************************)
(* The frontmatter emitJson reads when the yaml package is not installed.  *)
(* The service answers with a document whose frontmatter holds a quote     *)
(* line, a tags list laid out on one line or on several, and a cycle line  *)
(* after it; the body is a paragraph, or two paragraphs set apart by a     *)
(* thematic break.                                                         *)
(***************************************************************************)
QuoteValues ==
  {<<"n","u","l","l">>, <<"N","o","n","e">>, <<"n","o","n","e">>, <<"N","U","L","L">>, <<"n","O","n","E">>,
   <<"\"","A","l","p","h","a","\"">>, <<"'","A","l","p","h","a","'">>, <<"A","l","p","h","a">>, <<" "," ","A","l","p","h","a"," ","B","e","t","a"," "," ">>,
   <<"\"","n","u","l","l","\"">>, <<"'","N","o","n","e","'">>}

QuoteLines == {<<>>} \cup {<<<<"q","u","o","t","e",":"," ">> \o v>> : v \in QuoteValues}

\* the ways of laying out the list of the two tags Faith and Hope
TagLayouts ==
  {<<<<"t","a","g","s",":"," ","[","\"","F","a","i","t","h","\"",","," ","\"","H","o","p","e","\"","]">>>>,
   <<<<"t","a","g","s",":"," ","[">>, <<" "," ","\"","F","a","i","t","h","\"",",">>, <<" "," ","\"","H","o","p","e","\"">>, <<"]">>>>,
   <<<<"t","a","g","s",":"," ","[","\"","F","a","i","t","h","\"",",">>, <<" "," ","\"","H","o","p","e","\"","]">>>>,
   <<<<"t","a","g","s",":"," ","[">>, <<"\"","F","a","i","t","h","\"",","," ","\"","H","o","p","e","\""," ","]"," "," ">>>>,
   <<<<"t","a","g","s",":"," ","[","'","F","a","i","t","h","'",",">>, <<" "," ","'","H","o","p","e","'","]">>>>}

CycleLine == <<"c","y","c","l","e",":"," ","\"","Y","e","a","r"," ","C","\"">>

TagsThenCycle == {<<>>} \cup {l \o <<CycleLine>> : l \in TagLayouts}

FrontmatterBodies ==
  {<<>>, <<<<>>, <<"A","l","p","h","a">>>>,
   <<<<>>, <<"q","u","o","t","e",":"," ","A","l","p","h","a">>, <<>>, Delim, <<>>, <<"B","e","t","a">>>>}

FrontmatterDocuments ==
  {join(<<Delim>> \o q \o t \o <<Delim>> \o b, NL) :
     q \in QuoteLines, t \in TagsThenCycle, b \in FrontmatterBodies}
  \cup {join(q \o <<Delim>> \o b, NL) : q \in QuoteLines, b \in FrontmatterBodies}

\* the generator that always emits JSON, run where import('yaml') fails
generateAndEmitFallback ==
  /\ pc = "idle"
  /\ \E content \in FrontmatterDocuments :
       LET markdown == stripCodeFences(content)
           block == extractFrontmatter(markdown)
       IN /\ md' = markdown
          /\ log' = log \cup warnings(markdown)
          /\ frontmatter' = block
          /\ decoded' = IF Truthy(block) THEN Obj(parseYamlFallback(block.v)) ELSE Undef
          /\ outFile' = emitJson(markdown, FALSE)
  /\ pc' = "emitted"
  /\ result' = "ok"
  /\ UNCHANGED sections
  /\ UNCHANGED <<callVars, feedVars, appVars>>

NextFrontmatter == generateAndEmitFallback \/ parseMarkdownToJSON

SpecFrontmatter == Init /\ [][NextFrontmatter]_vars

Emitted == pc \in {"emitted", "parsed"} /\ frontmatter # Undef

\* the lines between the opening `---` line and the next `---` line, the
\* blank lines right after the opening one left aside
RECURSIVE FromFirstText(_)
FromFirstText(ls) ==
  IF ls # <<>> /\ trim(Head(ls)) = <<>> THEN FromFirstText(Tail(ls)) ELSE ls

BlockAsWritten(text) == join(FromFirstText(RawLines(text)), NL)

\* C21: the frontmatter block emitJson extracts is the text between the
\* first line, which is the delimiter, and the next delimiter line; a
\* document that does not begin with the delimiter line has no block.
C21_BlockBetweenDelimiters ==
  Emitted =>
    frontmatter = IF WellFormed(md) THEN Str(BlockAsWritten(md)) ELSE Null

\* the same, for the documents with a line or more between the delimiters
C21_ExceptEmptyBlock ==
  (Emitted /\ (WellFormed(md) => RawLines(md) # <<>>)) =>
    frontmatter = IF WellFormed(md) THEN Str(BlockAsWritten(md)) ELSE Null

\* no line between the delimiters: no block is found, or one that starts
\* with the closing delimiter and runs into the body
C21_EmptyBlockNotFound ==
  (Emitted /\ WellFormed(md) /\ RawLines(md) = <<>>) =>
    (frontmatter = Null \/ (frontmatter.k = "str" /\ startsWith(frontmatter.v, Delim)))

\* what the claim gives for a value as written
NullWords == {<<"n","u","l","l">>, <<"n","o","n","e">>}

AsClaimed(v) ==
  IF toLowerCase(v) \in NullWords THEN Null
  ELSE IF Quoted(v, DQ) \/ Quoted(v, SQ) THEN Str(Inner(v))
  ELSE Str(trim(v))

DecodedQuote == Emitted /\ decoded.k = "obj" /\ WellFormed(md) /\ HasKey(md, <<"q","u","o","t","e">>)

SeveralLines(text) ==
  /\ WellFormed(text) /\ HasKey(text, <<"t","a","g","s">>)
  /\ ~endsWith(RawValue(text, <<"t","a","g","s">>), <<"]">>)

DecodedTags == Emitted /\ decoded.k = "obj" /\ WellFormed(md) /\ HasKey(md, <<"t","a","g","s">>)

\* C23: a bracketed tags list laid out on several lines is decoded by the
\* fallback decoder to the list of the same items written on one line, and
\* the key on the line after the closing bracket is decoded as usual.
C23_ListOverSeveralLines ==
  DecodedTags =>
    /\ Get(decoded.v, <<"t","a","g","s">>) = FaithHope
    /\ Get(decoded.v, <<"c","y","c","l","e">>) = Str(<<"Y","e","a","r"," ","C">>)
    /\ DOMAIN decoded.v \subseteq {<<"q","u","o","t","e">>, <<"t","a","g","s">>, <<"c","y","c","l","e">>}

C23_Witness ==
  /\ DecodedTags /\ SeveralLines(md)
  /\ Len(Lines(frontmatter.v)) >= 4
  /\ Get(decoded.v, <<"t","a","g","s">>) = FaithHope
  /\ Get(decoded.v, <<"c","y","c","l","e">>) = Str(<<"Y","e","a","r"," ","C">>)

(***************************************************************************)
(* Sections of several blocks and headings that come twice.  The service   *)
(* answers with a dated document of two headings: one or two paragraphs    *)
(* under the first, one under the second.                                  *)
(***************************************************************************)
SectionTitles ==
  {<<"F","i","r","s","t"," ","R","e","a","d","i","n","g"," ","S","u","m","m","a","r","y">>, <<"f","i","r","s","t","-","r","e","a","d","i","n","g"," ","s","u","m","m","a","r","y",":">>, <<"D","a","i","l","y"," ","P","r","a","y","e","r">>,
   <<"F","u","n"," ","F","a","c","t">>, <<"F","U","N"," "," ","F","A","C","T","!">>, <<"1","2","3">>, <<"!","!","!">>}

FirstParagraphs == {<<<<"A","l","p","h","a">>>>, <<<<"B","e","t","a">>, <<"G","a","m","m","a">>>>, <<<<" ","D","e","l","t","a"," "," ">>>>}

MoreParagraphs == {<<>>, <<<<<<"E","p","s","i","l","o","n">>, <<"Z","e","t","a">>>>>>}

LastParagraphs == {<<<<"A","l","p","h","a">>>>, <<<<"E","t","a">>>>}

SectionDocuments ==
  {MkDoc(TRUE, <<<<"d","a","t","e",":"," ","\"","2","0","2","5","-","0","9","-","0","7","\"">>>>, <<>>, <<>>,
         <<<<<<"#"," ">> \o h1>>, p1>> \o more \o <<<<<<"#"," ">> \o h2>>, p3>>) :
     h1 \in SectionTitles, h2 \in SectionTitles,
     p1 \in FirstParagraphs, more \in MoreParagraphs, p3 \in LastParagraphs}

\* scripts/exp/generate.js, the service answering with such a document
generateSectioned ==
  /\ pc = "idle"
  /\ \E content \in SectionDocuments :
       LET markdown == stripCodeFences(content)
       IN /\ md' = markdown
          /\ log' = log \cup warnings(markdown)
  /\ pc' = "generated"
  /\ result' = "ok"
  /\ UNCHANGED <<outFile, sections>>
  /\ UNCHANGED <<callVars, feedVars, emitVars, appVars>>

NextSections == generateSectioned \/ parseMarkdownToJSON

SpecSections == Init /\ [][NextSections]_vars

\* no whitespace at either end
IsTrimmed(t) == t = <<>> \/ (~IsSpace(t[1]) /\ ~IsSpace(t[Len(t)]))

\* the blocks under the headings with these letters, in document order
BlocksUnder(nodes, letters) ==
  SelectSeq([i \in 1..Len(nodes) |-> i],
            LAMBDA i : /\ nodes[i].type # "heading"
                       /\ Owner(nodes, i) # 0
                       /\ LettersOf(nodes[Owner(nodes, i)].text) = letters)

\* the lines of these blocks, block after block
RECURSIVE LinesOfBlocks(_, _)
LinesOfBlocks(nodes, at) ==
  IF at = <<>> THEN <<>>
  ELSE Lines(nodes[Head(at)].text) \o LinesOfBlocks(nodes, Tail(at))

\* C24: every section text used in the record is trimmed, and its line
\* breaks are kept: the lines of the blocks of the section follow one
\* another, a line break between two consecutive blocks, in document order.
C24_TrimmedLinesKept ==
  Parsed =>
    /\ \A k \in DOMAIN sections : IsTrimmed(sections[k])
    /\ \A f \in DOMAIN ContentHeading :
         /\ Record[f].k = "str" /\ IsTrimmed(Record[f].v)
         /\ Lines(Record[f].v) =
              (IF BlocksUnder(Nodes, ContentHeading[f]) = <<>> THEN <<<<>>>>
               ELSE LinesOfBlocks(Nodes, BlocksUnder(Nodes, ContentHeading[f])))

C24_Witness ==
  /\ Parsed
  /\ Record.firstReading = Str(<<"B","e","t","a","\n","G","a","m","m","a","\n","E","p","s","i","l","o","n","\n","Z","e","t","a">>)
  /\ Record.dailyPrayer = Str(<<"A","l","p","h","a">>)

\* the headings of the parsed document, in document order
HeadingsOf(nodes) == SelectSeq(nodes, LAMBDA n : n.type = "heading")

\* the texts of the blocks that are no headings, one after the other with a
\* line break between them
AllText(nodes) ==
  LET blocks == SelectSeq(nodes, LAMBDA n : n.type # "heading")
  IN join([i \in 1..Len(blocks) |-> blocks[i].text], NL)

\* the two headings of the document have the same letters
SameSection(nodes) ==
  /\ Len(HeadingsOf(nodes)) = 2
  /\ LettersOf(HeadingsOf(nodes)[1].text) = LettersOf(HeadingsOf(nodes)[2].text)

\* C28: when two headings of a body resolve to the same section key (the
\* same recognised heading, two unrecognised headings with the same letters,
\* headings without letters, which all become extra_unknown), the text
\* under the later heading is appended to the text under the earlier one, in
\* document order: the later heading neither empties nor replaces the
\* section.
C28_RepeatedHeadingAppends ==
  (Parsed /\ SameSection(Nodes)) =>
    \E k \in DOMAIN sections :
      /\ DOMAIN sections = {<<"i","n","t","r","o">>, k}
      /\ sections[k] = AllText(Nodes)
      /\ LettersOf(HeadingsOf(Nodes)[1].text) = <<>> => k = <<"e","x","t","r","a","_","u","n","k","n","o","w","n">>
      /\ LettersOf(HeadingsOf(Nodes)[1].text) = <<"f","i","r","s","t","r","e","a","d","i","n","g","s","u","m","m","a","r","y">> =>
           (k = <<"f","i","r","s","t","R","e","a","d","i","n","g">> /\ Record.firstReading = Str(AllText(Nodes)))

C28_Witness ==
  /\ Parsed
  /\ HeadingsOf(Nodes) = <<[type |-> "heading", text |-> <<"1","2","3">>],
                           [type |-> "heading", text |-> <<"!","!","!">>]>>
  /\ sections[<<"e","x","t","r","a","_","u","n","k","n","o","w","n">>] = <<"B","e","t","a","\n","G","a","m","m","a","\n","E","t","a">>

(***************************************************************************)
(* Answers with carriage returns.  The service answers with three words,   *)
(* each gap one of four line ends, with or without a fence wrapper.        *)
(***************************************************************************)
CR == <<"\r">>

LineEnds == {NL, CR \o NL, CR \o CR \o NL, CR}

AnswersWithLineEnds ==
  {o \o <<"A","l","p","h","a">> \o e1 \o <<"B","e","t","a">> \o e2 \o <<"G","a","m","m","a">> \o c :
     o \in {<<>>, Fence \o CR \o NL}, e1 \in LineEnds, e2 \in LineEnds,
     c \in {<<>>, CR \o NL \o Fence}}

\* let markdown = data.choices?.[0]?.message?.content
receiveWithLineEnds ==
  /\ pc = "idle"
  /\ md' \in AnswersWithLineEnds
  /\ pc' = "received"
  /\ UNCHANGED <<outFile, result, sections, log>>
  /\ UNCHANGED <<callVars, feedVars, emitVars, appVars>>

\* markdown = stripCodeFences(markdown).trim(), up to the end of the
\* generateMarkdown of the other script
normalizeAnswerPlain ==
  /\ pc = "received"
  /\ md' = trim(stripCodeFencesPlain(md))
  /\ pc' = "generated"
  /\ result' = "ok"
  /\ UNCHANGED <<outFile, sections, log>>
  /\ UNCHANGED <<callVars, feedVars, emitVars, appVars>>

NextLineEnds == receiveWithLineEnds \/ normalizeAnswer \/ normalizeAnswerPlain

SpecLineEnds == Init /\ [][NextLineEnds]_vars

\* a carriage return right before a line feed
HasCrLf(t) == \E i \in 1..(Len(t) - 1) : t[i] = "\r" /\ t[i + 1] = "\n"

\* two carriage returns right before a line feed
HasCrCrLf(t) ==
  \E i \in 1..(Len(t) - 2) : t[i] = "\r" /\ t[i + 1] = "\r" /\ t[i + 2] = "\n"

\* C25: whatever the answer, the text the normalizer returns holds no
\* carriage return followed by a line feed.
C25_NoCrLfPair == pc = "generated" => ~HasCrLf(md)

\* the same, for the answers without two carriage returns before a line feed
C25_UnlessDoubledReturn ==
  [][(pc = "received" /\ pc' = "generated" /\ ~HasCrCrLf(md)) => ~HasCrLf(md')]_vars

\* C26: when the normalised text does not begin with the frontmatter
\* delimiter the generator warns and goes on: the run ends well and the
\* normalised text is what devotion.md holds.
C26_WarningOnly ==
  [][(pc = "received" /\ pc' = "generated" /\ Lines(md')[1] # Delim) =>
       /\ "no-frontmatter-start" \in log'
       /\ result' = "ok"
       /\ md' = stripCodeFences(md)]_vars

C26_Witness ==
  /\ pc = "generated" /\ result = "ok"
  /\ md = <<"A","l","p","h","a","\n">> \o FencedBlock \o <<"\n","B","e","t","a">>
  /\ "no-frontmatter-start" \in log

\* C27: normalising a second time changes nothing, whatever the answer was:
\* stripCodeFences(stripCodeFences(t)) = stripCodeFences(t).
C27_Idempotent == pc = "generated" => stripCodeFences(md) = md

\* the same, for the results with three backquotes at neither end
C27_UnlessFenceLeft ==
  (pc = "generated" /\ ~startsWith(md, Fence) /\ ~endsWith(md, Fence)) =>
    stripCodeFences(md) = md

(***************************************************************************)
(* The daily notification of the mobile application (notifications.ts).    *)
(* The device keeps local time; on one day of the model the clocks go      *)
(* forward at 02:00, so that the hour from 02:00 to 03:00 does not exist   *)
(* on it.  A Date set to a time in that hour reads one hour later.         *)
(***************************************************************************)
DAILY_ID_KEY == "lectio.daily.notificationId"

DAILY_TIME_KEY == "lectio.daily.hhmm"

\* the times the settings screen saves: it accepts HH:MM from 00:00 to 23:59
Times == {<<"0","7",":","0","0">>, <<"0","2",":","3","0">>, <<"2","1",":","1","5">>, <<"0","0",":","0","5">>}

\* the day on which the clocks go forward
ForwardDay == 1

\* the moments at which the application is used: day and minute of the day
Moments == <<[day |-> 0, minute |-> 1200], [day |-> 1, minute |-> 60],
             [day |-> 1, minute |-> 720], [day |-> 2, minute |-> 480]>>

\* Number(s) for a text of digits
RECURSIVE Number(_)
Number(s) ==
  IF s = <<>> THEN 0
  ELSE 10 * Number(SubSeq(s, 1, Len(s) - 1))
         + (CHOOSE d \in 0..9 : DigitChars[d + 1] = s[Len(s)])

\* the local time a Date reads once it is set to that day and minute
localTime(day, minute) ==
  IF day = ForwardDay /\ minute >= 120 /\ minute < 180
  THEN [day |-> day, minute |-> minute + 60]
  ELSE [day |-> day, minute |-> minute]

\* new Date(now), setHours(h, m, 0, 0) and, when that is not after now,
\* setDate(getDate() + 1)
parseHHMM(hhmm, at) ==
  LET h == Number(split(hhmm, ":")[1])
      m == Number(split(hhmm, ":")[2])
      fire == localTime(at.day, 60 * h + m)
  IN IF fire.day < at.day \/ (fire.day = at.day /\ fire.minute <= at.minute)
     THEN localTime(fire.day + 1, fire.minute)
     ELSE fire

getHours(d) == d.minute \div 60

getMinutes(d) == d.minute % 60

getItem(key) == storage[key]

\* AsyncStorage.getItem(DAILY_TIME_KEY) || "07:00"
getDailyTime(st) == IF Truthy(st[DAILY_TIME_KEY]) THEN st[DAILY_TIME_KEY].v ELSE <<"0","7",":","0","0">>

\* the identifier scheduleNotificationAsync gives to the n-th notification
identifier(n) == <<"i","d","-">> \o toDecimal(n)

\* the notification scheduleDailyAt schedules
dailyNotification(hhmm) ==
  LET firstFire == parseHHMM(hhmm, Moments[clock])
  IN [identifier |-> identifier(issued + 1),
      hour |-> getHours(firstFire), minute |-> getMinutes(firstFire)]

\* scheduleDailyAt, with storage as st and the notifications kept so far
scheduleDailyAt(hhmm, st, kept) ==
  /\ issued < MaxSchedules
  /\ scheduled' = kept \cup {dailyNotification(hhmm)}
  /\ storage' = [st EXCEPT ![DAILY_ID_KEY] = Str(identifier(issued + 1))]
  /\ issued' = issued + 1

\* the application is installed and opened for the first time
InitNotify ==
  /\ md = <<>> /\ outFile = NoFile
  /\ pc = "idle" /\ result = "none" /\ sections = EmptyObj /\ log = {}
  /\ calls = <<>>
  /\ weeklyFeed = NoFile /\ devotions = NoFile /\ now = <<>> /\ run = "off"
  /\ frontmatter = Undef /\ decoded = Undef
  /\ storage = (DAILY_ID_KEY :> Null) @@ (DAILY_TIME_KEY :> Null)
  /\ scheduled = {}
  /\ issued = 0
  /\ clock = 1
  /\ NotDeployed

ensureDailyNotification ==
  /\ clock > 0
  /\ LET existingId == getItem(DAILY_ID_KEY)
     IN IF Truthy(existingId) /\ \E s \in scheduled : s.identifier = existingId.v
        THEN UNCHANGED <<storage, scheduled, issued>>
        ELSE scheduleDailyAt(getDailyTime(storage), storage, scheduled)
  /\ UNCHANGED clock
  /\ UNCHANGED <<md, outFile, pc, result, sections, log, callVars, feedVars, emitVars, pushVars>>

\* setDailyTime with rescheduleDaily
setDailyTime(hhmm) ==
  /\ clock > 0
  /\ LET saved == [storage EXCEPT ![DAILY_TIME_KEY] = Str(hhmm)]
         existingId == saved[DAILY_ID_KEY]
         kept == IF Truthy(existingId)
                 THEN {s \in scheduled : s.identifier # existingId.v}
                 ELSE scheduled
     IN scheduleDailyAt(hhmm, saved, kept)
  /\ UNCHANGED clock
  /\ UNCHANGED <<md, outFile, pc, result, sections, log, callVars, feedVars, emitVars, pushVars>>

\* time passes between two uses of the application
laterMoment ==
  /\ clock > 0 /\ clock < Len(Moments)
  /\ clock' = clock + 1
  /\ UNCHANGED <<storage, scheduled, issued>>
  /\ UNCHANGED <<md, outFile, pc, result, sections, log, callVars, feedVars, emitVars, pushVars>>

\* the device is restored from a backup: the storage comes back, the
\* scheduled notifications do not
restoredFromBackup ==
  /\ clock > 0 /\ scheduled # {}
  /\ scheduled' = {}
  /\ UNCHANGED <<storage, issued, clock>>
  /\ UNCHANGED <<md, outFile, pc, result, sections, log, callVars, feedVars, emitVars, pushVars>>

NextNotify ==
  \/ ensureDailyNotification
  \/ \E hhmm \in Times : setDailyTime(hhmm)
  \/ laterMoment
  \/ restoredFromBackup

SpecNotify == InitNotify /\ [][NextNotify]_vars

\* the daily time last saved, 07:00 when none was
SavedTime == IF storage[DAILY_TIME_KEY] = Null THEN <<"0","7",":","0","0">> ELSE storage[DAILY_TIME_KEY].v

\* the hour and the minute a time HH:MM names
HourOf(t) == Number(SubSeq(t, 1, 2))

MinuteOf(t) == Number(SubSeq(t, 4, 5))

Installed == clock > 0

\* C29: after any sequence of calls of ensureDailyNotification and
\* setDailyTime, one after the other, at most one daily notification is
\* scheduled, its identifier is the one stored under the daily-id key, and
\* its hour and minute are those of the daily time last saved (07:00 when
\* none was saved).
C29_OneDailyAtSavedTime ==
  Installed =>
    /\ Cardinality(scheduled) <= 1
    /\ \A n \in scheduled :
         /\ storage[DAILY_ID_KEY] = Str(n.identifier)
         /\ n.hour = HourOf(SavedTime) /\ n.minute = MinuteOf(SavedTime)

\* at most one, and under the stored identifier
C29_OneDailyUnderStoredId ==
  Installed =>
    /\ Cardinality(scheduled) <= 1
    /\ \A n \in scheduled : storage[DAILY_ID_KEY] = Str(n.identifier)

\* the hour and minute are the saved ones unless the saved time lies in
\* the hour the clocks skip
C29_UnlessHourSkipped ==
  (Installed /\ HourOf(SavedTime) # 2) =>
    \A n \in scheduled : n.hour = HourOf(SavedTime) /\ n.minute = MinuteOf(SavedTime)

(***************************************************************************)
(* The push backend: backend/api/register.ts and backend/api/send.ts.  kv  *)
(* is the set stored under expoTokens, kvAvailable tells whether the       *)
(* deployment has the key-value store, MEM_register and MEM_send are the   *)
(* module-level sets of the two files, res is the last response, tokens    *)
(* the tokens the last invocation of send read, and acknowledged the       *)
(* tokens register answered ok:true for, each with the persisted flag of   *)
(* the answer.                                                             *)
(***************************************************************************)
LowerOrDigit == {"a", "b", "c", "d", "e", "f", "g", "h", "i", "j", "k", "l", "m", "n", "o", "p", "q", "r", "s", "t", "u", "v", "w", "x", "y", "z"} \cup Digits

\* the pattern of five groups of letters and digits joined by hyphens
isUuidLike(t) ==
  /\ Len(t) = 36
  /\ \A i \in 1..36 :
       IF i \in {9, 14, 19, 24} THEN t[i] = "-" ELSE ToLowerChar(t[i]) \in LowerOrDigit

\* Expo.isExpoPushToken
isExpoPushToken(t) ==
  \/ (startsWith(t, <<"E","x","p","o","n","e","n","t","P","u","s","h","T","o","k","e","n","[">>) \/ startsWith(t, <<"E","x","p","o","P","u","s","h","T","o","k","e","n","[">>)) /\ endsWith(t, <<"]">>)
  \/ isUuidLike(t)

\* the tokens a device may send: two Expo push tokens and a string that
\* is no Expo push token
PushTokens == {<<"E","x","p","o","n","e","n","t","P","u","s","h","T","o","k","e","n","[","a","]">>, <<"E","x","p","o","P","u","s","h","T","o","k","e","n","[","b","]">>, <<"a","b","c">>}

Methods == {"POST", "GET"}

\* a request body already decoded by the platform
tokenBody(token) == Obj(<<"t","o","k","e","n">> :> token)

\* the text of a request body that reached the handler undecoded
tokenJson(t) == <<"{","\"","t","o","k","e","n","\"",":","\"">> \o t \o <<"\"","}">>

RequestBodies ==
  {tokenBody(Str(t)) : t \in PushTokens}
    \cup {tokenBody(Str(<<>>)), tokenBody(Num(<<"7">>)), Obj(<<>>), Undef}
    \cup {Str(tokenJson(t)) : t \in PushTokens}
    \cup {Str(<<"t","o","k","e","n","=","a","b","c">>)}

\* JSON.parse of the texts above: an object with the member token, or the
\* value nofile standing for the thrown SyntaxError
JSONparse(text) ==
  IF startsWith(text, <<"{","\"","t","o","k","e","n","\"",":","\"">>) /\ endsWith(text, <<"\"","}">>) /\ Len(text) >= 12
    THEN tokenBody(Str(SubSeq(text, 11, Len(text) - 2)))
    ELSE NoFile

\* body?.token
tokenOf(body) ==
  IF body.k = "obj" /\ <<"t","o","k","e","n">> \in DOMAIN body.v THEN body.v[<<"t","o","k","e","n">>] ELSE Undef

\* !token || typeof token !== "string"
missingToken(token) == token.k # "str" \/ token.v = <<>>

\* the messages of send.ts
messages(read) == {t \in read : isExpoPushToken(t)}

InitPush ==
  /\ md = <<>> /\ outFile = NoFile
  /\ pc = "idle" /\ result = "none" /\ sections = EmptyObj /\ log = {}
  /\ calls = <<>>
  /\ weeklyFeed = NoFile /\ devotions = NoFile /\ now = <<>> /\ run = "off"
  /\ frontmatter = Undef /\ decoded = Undef
  /\ NotInstalled
  /\ kv = {} /\ kvAvailable \in BOOLEAN
  /\ MEM_register = {} /\ MEM_send = {}
  /\ res = NoResponse /\ tokens = {} /\ acknowledged = {}

\* the handler of register.ts
register(method, reqBody) ==
  LET body == IF reqBody.k = "str" THEN JSONparse(reqBody.v) ELSE reqBody
      token == tokenOf(body)
  IN /\ IF method # "POST"
          THEN /\ res' = [handler |-> "register", status |-> 405, body |-> [text |-> "Method not allowed"]]
               /\ UNCHANGED <<kv, MEM_register, acknowledged>>
          ELSE IF body.k = "nofile"
          THEN /\ res' = [handler |-> "register", status |-> 500, body |-> [error |-> "SyntaxError"]]
               /\ UNCHANGED <<kv, MEM_register, acknowledged>>
          ELSE IF missingToken(token)
          THEN /\ res' = [handler |-> "register", status |-> 400, body |-> [error |-> "missing token"]]
               /\ UNCHANGED <<kv, MEM_register, acknowledged>>
          ELSE /\ IF kvAvailable
                    THEN kv' = kv \cup {token.v} /\ UNCHANGED MEM_register
                    ELSE MEM_register' = MEM_register \cup {token.v} /\ UNCHANGED kv
               /\ res' = [handler |-> "register", status |-> 200, body |-> [ok |-> TRUE, persisted |-> kvAvailable]]
               /\ acknowledged' = acknowledged \cup {[token |-> token.v, persisted |-> kvAvailable]}
     /\ UNCHANGED <<kvAvailable, MEM_send, tokens>>
     /\ UNCHANGED <<md, outFile, pc, result, sections, log, callVars, feedVars, emitVars, notifyVars>>

\* the handler of send.ts; the push service accepts the messages or the
\* call to it throws
send(accepted) ==
  LET read == IF kvAvailable THEN kv ELSE MEM_send
  IN /\ tokens' = read
     /\ res' = IF accepted \/ messages(read) = {}
                 THEN [handler |-> "send", status |-> 200,
                       body |-> [ok |-> TRUE, sent |-> Cardinality(messages(read)), tickets |-> messages(read)]]
                 ELSE [handler |-> "send", status |-> 500, body |-> [error |-> "push service"]]
     /\ UNCHANGED <<kv, kvAvailable, MEM_register, MEM_send, acknowledged>>
     /\ UNCHANGED <<md, outFile, pc, result, sections, log, callVars, feedVars, emitVars, notifyVars>>

\* the platform starts fresh instances of the functions: the module-level
\* sets are empty again, the store is kept
coldStart ==
  /\ res # NoResponse
  /\ MEM_register' = {} /\ MEM_send' = {}
  /\ res' = NoResponse /\ tokens' = {}
  /\ UNCHANGED <<kv, kvAvailable, acknowledged>>
  /\ UNCHANGED <<md, outFile, pc, result, sections, log, callVars, feedVars, emitVars, notifyVars>>

NextPush ==
  \/ \E method \in Methods, reqBody \in RequestBodies : register(method, reqBody)
  \/ \E accepted \in BOOLEAN : send(accepted)
  \/ coldStart

SpecPush == InitPush /\ [][NextPush]_vars

\* the last response is one of send
SendAnswered == res.handler = "send"

\* the step is a rejected request to register
Rejected == res'.handler = "register" /\ res'.status \in {405, 400}

\* C30: every token register answered ok:true for, persisted true or
\* false, is among the tokens a later invocation of send reads; a rejected
\* request to register (a method other than POST, a missing or non-string
\* token) adds no token anywhere.
C30_AcknowledgedTokensAreRead ==
  /\ [](SendAnswered => \A a \in acknowledged : a.token \in tokens)
  /\ [][Rejected => UNCHANGED <<kv, MEM_register, MEM_send>>]_vars

\* the tokens answered with persisted true are read by a later send
C30_PersistedTokensAreRead ==
  SendAnswered => \A a \in acknowledged : a.persisted => a.token \in tokens

\* a rejected request adds no token anywhere
C30_RejectedAddsNothing ==
  [][Rejected => UNCHANGED <<kv, MEM_register, MEM_send>>]_vars
====
